---- MODULE Spec2Model ----
(***************************************************************************)
(* A model of ads/core.py: the response parser (APIResponse,               *)
(* SolrResponse), the record type (Article) with its lazily resolved       *)
(* fields, and the paginated query (SearchQuery) with its iterator.        *)
(*                                                                         *)
(* Python values are modelled as follows.  None is the empty sequence      *)
(* where an object reference is optional (None / Some(x)), and the number  *)
(* PyNone where a scalar field value is optional.  A dict is a function    *)
(* whose DOMAIN is its key set.  A call that may raise returns a record    *)
(* [exc, arg, obj]: exc = "none" and obj = <<result>> on return, exc the   *)
(* exception class and arg its argument on raise.                          *)
(***************************************************************************)
EXTENDS Integers, Sequences, FiniteSets, TLC

----------------------------------------------------------------------------
(* Bounds of the model.                                                    *)

MaxN == 3          \* largest server-side result set
MaxRows == 2       \* largest page size
MaxPages == 2      \* largest value max_pages is given
MaxStart == 2      \* largest start offset a query is constructed with
MaxSent == 4       \* requests one query object sends at most
MaxFail == 1       \* failed requests per query object at most
MaxReads == 2      \* reads of the articles view of one envelope at most
MaxAccess == 3     \* attribute reads of one Article at most
MaxSteps == 4      \* token and session operations on the query objects at most
MaxEnvChanges == 1 \* changes of the environment or of the token files at most
MaxPairOps == 3    \* operations on a pair of query objects at most
MaxExecs == 3      \* execute() calls on a MetricsQuery at most

----------------------------------------------------------------------------
(* Python helpers.                                                         *)

None == <<>>
Some(x) == <<x>>
PyNone == 0

Return(x) == [exc |-> "none", arg |-> None, obj |-> Some(x)]
Raise(e, a) == [exc |-> e, arg |-> a, obj |-> None]

Min(a, b) == IF a <= b THEN a ELSE b

HasKey(d, k) == k \in DOMAIN d

\* math.ceil(a / b) under true division (Python 3)
CeilDiv(a, b) == (a + b - 1) \div b

\* a page number counted from one past the pages fetched
PageNumberOneBased(n, rows, p3) ==
    (IF p3 THEN CeilDiv(n, rows) ELSE n \div rows) + 1

\* math.ceil(len(self.articles) / self.query['rows']): '/' is true division
\* on Python 3 and floor division on Python 2
PageNumber(n, rows, p3) == IF p3 THEN CeilDiv(n, rows) ELSE n \div rows

----------------------------------------------------------------------------
(* Article construction.                                                   *)

\* Article(**kwargs): _raw is the kwargs dict, and every key becomes an
\* instance attribute
ArticleInit(kwargs) == [raw |-> kwargs, attrs |-> kwargs]

\* the RuntimeWarning of Article.__init__
ArticleInitWarns(kwargs) == ~HasKey(kwargs, "id")

\* hasattr(a, 'bibcode') and a.bibcode is not None
HasBibcode(a) == HasKey(a.attrs, "bibcode") /\ a.attrs.bibcode # PyNone

\* a comparison that answers False where a bibcode is missing
ArticleEqLenient(a, b) ==
    Return(HasBibcode(a) /\ HasBibcode(b) /\ a.attrs.bibcode = b.attrs.bibcode)

\* Article.__eq__(self, other)
ArticleEq(a, b) ==
    IF ~HasBibcode(a) \/ ~HasBibcode(b)
    THEN Raise("TypeError", "Cannot compare articles without bibcodes")
    ELSE Return(a.attrs.bibcode = b.attrs.bibcode)

\* Article.__ne__(self, other): not self.__eq__(other)
ArticleNe(a, b) ==
    IF ArticleEq(a, b).exc # "none" THEN ArticleEq(a, b)
    ELSE Return(~ArticleEq(a, b).obj[1])

----------------------------------------------------------------------------
(* Response parser.                                                        *)

\* json.loads(raw): a body is [valid, doc]; valid tells whether the text is
\* JSON and doc is the decoded document
JsonLoads(raw) ==
    IF raw.valid THEN Return(raw.doc) ELSE Raise("ValueError", "json")

\* "{}".format(e) of a KeyError e: the key in quotes
KeyErrorText(k) == "'" \o k \o "'"

\* a lookup chain that blames the enclosing key for a missing inner key
FirstMissingKeyOuter(j) ==
    IF ~HasKey(j, "responseHeader") THEN "responseHeader"
    ELSE IF ~HasKey(j.responseHeader, "params") THEN "responseHeader"
    ELSE IF ~HasKey(j, "response") THEN "response"
    ELSE IF ~HasKey(j.response, "numFound") THEN "response"
    ELSE IF ~HasKey(j.response, "docs") THEN "response"
    ELSE ""

\* the key whose lookup raises KeyError in the try block of
\* SolrResponse.__init__, "" when every lookup succeeds
FirstMissingKey(j) ==
    IF ~HasKey(j, "responseHeader") THEN "responseHeader"
    ELSE IF ~HasKey(j.responseHeader, "params") THEN "params"
    ELSE IF ~HasKey(j, "response") THEN "response"
    ELSE IF ~HasKey(j.response, "numFound") THEN "numFound"
    ELSE IF ~HasKey(j.response, "docs") THEN "docs"
    ELSE ""

\* SolrResponse.__init__(raw)
SolrResponseInit(raw) ==
    LET j == raw.doc IN
    IF JsonLoads(raw).exc # "none" THEN JsonLoads(raw)
    ELSE IF FirstMissingKey(j) # ""
        THEN Raise("SolrResponseParseError", KeyErrorText(FirstMissingKey(j)))
    ELSE Return([raw |-> raw,
                 json |-> j,
                 articles |-> None,
                 responseHeader |-> j.responseHeader,
                 params |-> j.responseHeader.params,
                 response |-> Some(j.response),
                 numFound |-> j.response.numFound,
                 docs |-> j.response.docs])

\* SolrResponse.articles (property getter): the memoized list when set,
\* otherwise one Article per entry of docs
SolrArticles(env) ==
    IF env.articles = None
    THEN [i \in 1..Len(env.docs) |-> ArticleInit(env.docs[i])]
    ELSE env.articles[1]

\* the Articles the articles getter constructs
SolrArticlesWraps(env) == IF env.articles = None THEN Len(env.docs) ELSE 0

\* env.articles = value: the property has no setter
SolrArticlesAssign(env, value) ==
    [obj |-> env, exc |-> "AttributeError"]

\* a getter that builds the list and does not keep it
SolrArticlesForget(env) == env

\* the envelope after the articles getter ran
SolrArticlesTouch(env) == [env EXCEPT !.articles = Some(SolrArticles(env))]

\* a loader that parses the body before it looks at the status
LoadHttpResponseParseFirst(http) ==
    LET c == SolrResponseInit(http.text) IN
    IF c.exc # "none" THEN c
    ELSE IF ~http.ok THEN Raise("APIResponseError", http.text)
    ELSE Return([c.obj[1] EXCEPT !.response = Some(http)])

\* APIResponse.load_http_response(HTTPResponse), for cls = SolrResponse;
\* an HTTP response is [ok, text]
LoadHttpResponse(http) ==
    IF ~http.ok THEN Raise("APIResponseError", http.text)
    ELSE LET c == SolrResponseInit(http.text) IN
         IF c.exc # "none" THEN c
         ELSE Return([c.obj[1] EXCEPT !.response = Some(http)])

----------------------------------------------------------------------------
(* The search service, as seen through session.get.  The service holds a   *)
(* list of records (db); a request selects the records matching q, returns *)
(* the slice [start : start + rows] of them restricted to the fields of    *)
(* fl that the record has, and the number of matching records as numFound. *)

\* the i-th record of the result list used for pagination
ServerDoc(i) == [id |-> i, bibcode |-> 10 + i]

\* a result list of n records
ServerDB(n) == [i \in 1..n |-> ServerDoc(i)]

Range(f) == {f[i] : i \in DOMAIN f}

\* q = "id:<id>" selects the record with that id, "unittest" every record
Matches(rec, q) == q = "unittest" \/ q = "id:" \o ToString(rec.id)

\* the record restricted to the requested fields
Project(rec, params) ==
    IF HasKey(params, "fl")
    THEN [k \in DOMAIN rec \cap Range(params.fl) |-> rec[k]]
    ELSE rec

\* docs[start : start + rows] of the matching records
ServerPage(db, params) ==
    LET found == SelectSeq(db, LAMBDA rec : Matches(rec, params.q))
        n == Len(found)
        len == IF params.start >= n THEN 0
               ELSE Min(params.rows, n - params.start)
    IN  [i \in 1..len |-> Project(found[params.start + i], params)]

NumFound(db, params) ==
    Len(SelectSeq(db, LAMBDA rec : Matches(rec, params.q)))

DropKey(d, k) == [x \in DOMAIN d \ {k} |-> d[x]]

SolrBody(params, n, docs) ==
    [valid |-> TRUE,
     doc |-> [responseHeader |-> [params |-> params],
              response |-> [numFound |-> n, docs |-> docs]]]

ErrorBody == [valid |-> TRUE, doc |-> [error |-> 1]]

Outcomes == {"ok", "http_error", "malformed"}

\* the HTTP response to a GET with the given params; outcome picks the
\* answer, a transport-level failure or a body without its header
HttpGet(params, db, outcome) ==
    LET good == SolrBody(params, NumFound(db, params), ServerPage(db, params))
    IN  CASE outcome = "ok" -> [ok |-> TRUE, text |-> good]
          [] outcome = "http_error" -> [ok |-> FALSE, text |-> ErrorBody]
          [] OTHER -> [ok |-> TRUE,
                       text |-> [good EXCEPT
                                   !.doc = DropKey(@, "responseHeader")]]

----------------------------------------------------------------------------
(* SearchQuery.  A query object is the record                              *)
(*   [query, max_pages, articles, response, iter_counter]                  *)
(* extended with the history of its requests: sent, the start offsets of   *)
(* the requests in the order they were sent, and nexec, the number of page *)
(* fetches that succeeded.                                                 *)

\* start left where it was
AdvanceStartNot(query) == query

\* start advanced by one record instead of one page
AdvanceStartByOne(query) == [query EXCEPT !.start = @ + 1]

\* start advanced by two pages
AdvanceStartTwice(query) == [query EXCEPT !.start = @ + 2 * query.rows]

\* self._query['start'] += self._query['rows']
AdvanceStart(query) == [query EXCEPT !.start = @ + query.rows]

\* the accumulated list replaced by the page
ReplaceArticles(articles, page) == page

\* self._articles.extend(self.response.articles)
ExtendArticles(articles, page) == articles \o page

\* execute() with start advanced before the request is sent
SQExecuteStartFirst(o, db, outcome) ==
    LET http == HttpGet(o.query, db, outcome)
        r == LoadHttpResponse(http)
        o1 == [o EXCEPT !.sent = Append(@, o.query.start),
                        !.query = AdvanceStart(@)]
    IN  IF r.exc # "none" THEN [obj |-> o1, exc |-> r.exc, ret |-> None]
        ELSE [obj |-> [o1 EXCEPT
                        !.response = Some(SolrArticlesTouch(r.obj[1])),
                        !.articles = ExtendArticles(@, SolrArticles(r.obj[1])),
                        !.nexec = @ + 1],
              exc |-> "none", ret |-> None]

\* SearchQuery.execute() against a service holding db
SQExecute(o, db, outcome) ==
    LET http == HttpGet(o.query, db, outcome)
        r == LoadHttpResponse(http)
        o1 == [o EXCEPT !.sent = Append(@, o.query.start)]
    IN  IF r.exc # "none" THEN [obj |-> o1, exc |-> r.exc, ret |-> None]
        ELSE [obj |-> [o1 EXCEPT
                        !.response = Some(SolrArticlesTouch(r.obj[1])),
                        !.articles = ExtendArticles(@, SolrArticles(r.obj[1])),
                        !.query = AdvanceStart(@),
                        !.nexec = @ + 1],
              exc |-> "none", ret |-> None]

AllFound == "All records found"
MaxQueried == "Maximum number of pages queried"

\* the page of the last response is shorter than a full page
HaveAllRecordsShortPage(o) == Len(o.response[1].docs) < o.query.rows

\* len(self.articles) >= self.response.numFound
HaveAllRecords(o) == Len(o.articles) >= o.response[1].numFound

\* no StopIteration: a further page is requested whenever the cursor is
\* past the accumulated records
StopCheckNever(o, p3) == "fetch"

\* the except IndexError branch of __next__: the StopIteration to raise, or
\* "fetch" when a further page is to be requested
StopCheck(o, p3) ==
    IF HaveAllRecords(o) THEN AllFound
    ELSE IF PageNumber(Len(o.articles), o.query.rows, p3) > o.max_pages
        THEN MaxQueried
    ELSE "fetch"

\* the record at the cursor returned, the cursor left where it was
SQYieldKeepCursor(b) ==
    [obj |-> b, exc |-> "none", ret |-> Some(b.articles[b.iter_counter + 1])]

\* cur = self._articles[self.__iter_counter]; self.__iter_counter += 1;
\* return cur
SQYield(b) ==
    [obj |-> [b EXCEPT !.iter_counter = @ + 1],
     exc |-> "none",
     ret |-> Some(b.articles[b.iter_counter + 1])]

\* SearchQuery.__next__(): out1 is the outcome of the request of the
\* implicit first execute(), out2 that of the request for a further page
SQNext(o, db, p3, out1, out2) ==
    LET s1 == IF o.response = None THEN SQExecute(o, db, out1)
              ELSE [obj |-> o, exc |-> "none", ret |-> None]
        a == s1.obj
    IN  IF s1.exc # "none" THEN s1
        ELSE IF a.iter_counter < Len(a.articles) THEN SQYield(a)
        ELSE IF StopCheck(a, p3) # "fetch"
            THEN [obj |-> a, exc |-> StopCheck(a, p3), ret |-> None]
        ELSE LET s2 == SQExecute(a, db, out2) IN
             IF s2.exc # "none" THEN s2
             ELSE IF s2.obj.iter_counter < Len(s2.obj.articles)
                 THEN SQYield(s2.obj)
             ELSE [obj |-> s2.obj, exc |-> "IndexError", ret |-> None]

\* SearchQuery.DEFAULT_FIELDS
DEFAULT_FIELDS == <<"author", "first_author", "bibcode", "id", "year">>

\* '{}:"{}"'.format(k, v) for one keyword argument kv = <<k, v>>
KwTerm(kv) == kv[1] \o ":\"" \o kv[2] \o "\""

\* ' '.join(terms) over the keyword arguments
RECURSIVE JoinTerms(_)
JoinTerms(kw) ==
    IF Len(kw) = 0 THEN ""
    ELSE IF Len(kw) = 1 THEN KwTerm(kw[1])
    ELSE KwTerm(kw[1]) \o " " \o JoinTerms(Tail(kw))

\* dict.setdefault(k, v)
SetDefault(d, k, v) ==
    IF HasKey(d, k) THEN d
    ELSE [x \in DOMAIN d \cup {k} |-> IF x = k THEN v ELSE d[x]]

\* the _query dict built from the individual parameters: None values are
\* filtered out, and keyword arguments are appended to q
IndividualQuery(a) ==
    LET given == [q |-> Some(IF a.q = None THEN "" ELSE a.q[1]),
                  fq |-> a.fq,
                  fl |-> a.fl,
                  sort |-> a.sort,
                  start |-> a.start,
                  rows |-> a.rows]
        d == [k \in {x \in DOMAIN given : given[x] # None} |-> given[k][1]]
    IN  IF Len(a.kwargs) = 0 THEN d
        ELSE [d EXCEPT !.q = @ \o " " \o JoinTerms(a.kwargs)]

\* the _query dict of SearchQuery.__init__
BuildQuery(a) ==
    IF a.query_dict # None
    THEN SetDefault(SetDefault(a.query_dict[1], "rows", 50), "start", 0)
    ELSE IndividualQuery(a)

\* rows >= 0
RowsNotNegative(rows) == rows >= 0

\* rows > 0
RowsGreaterThanZero(rows) == rows > 0

\* assert self._query.get('rows') > 0: a missing rows is None, and None > 0
\* is False on Python 2 and a TypeError on Python 3
AssertRows(d, p3) ==
    IF ~HasKey(d, "rows")
    THEN (IF p3 THEN "TypeError" ELSE "AssertionError")
    ELSE IF RowsGreaterThanZero(d.rows) THEN "none" ELSE "AssertionError"

\* assert self._query.get('q'): a missing or empty q is falsy
AssertQ(d) ==
    IF HasKey(d, "q") /\ Len(d.q) > 0 THEN "none" ELSE "AssertionError"

\* SearchQuery.__init__(query_dict, q, fq, fl, sort, start, rows, max_pages,
\* **kwargs); a is the record of the arguments, optional ones None / Some(v)
SearchQueryInit(a, p3) ==
    LET d == BuildQuery(a) IN
    IF AssertRows(d, p3) # "none"
        THEN Raise(AssertRows(d, p3), "rows must be greater than 0")
    ELSE IF AssertQ(d) # "none"
        THEN Raise(AssertQ(d), "q must not be empty")
    ELSE Return([query |-> d,
                 max_pages |-> a.max_pages,
                 articles |-> <<>>,
                 response |-> None,
                 iter_counter |-> 0,
                 sent |-> <<>>,
                 nexec |-> 0])

\* the defaults of the parameters of SearchQuery.__init__
DefaultArgs ==
    [query_dict |-> None, q |-> None, fq |-> None, fl |-> Some(DEFAULT_FIELDS),
     sort |-> None, start |-> Some(0), rows |-> Some(50), max_pages |-> 3,
     kwargs |-> <<>>]

----------------------------------------------------------------------------
(* Query objects and the dicts they hold.  A dict is an object of its own: *)
(* heap is the sequence of the dicts alive, and a query object refers to   *)
(* its _query dict by its index qref in heap.                              *)

\* SearchQuery.__init__ with the dict at index qd of heap passed as
\* query_dict (qd = 0: no query_dict, the parameters of a are used): with a
\* query_dict, setdefault updates that dict in place and _query refers to
\* it; without, _query is a new dict
SearchQueryAt(heap, qd, a, p3) ==
    LET args == IF qd = 0 THEN a
                ELSE [a EXCEPT !.query_dict = Some(heap[qd])]
        Built(r) ==
            [heap |-> IF qd # 0 THEN [heap EXCEPT ![qd] = BuildQuery(args)]
                      ELSE IF r.exc = "none" THEN Append(heap, BuildQuery(args))
                      ELSE heap,
             qref |-> IF r.exc # "none" THEN 0
                      ELSE IF qd # 0 THEN qd ELSE Len(heap) + 1,
             res |-> r]
    IN  Built(SearchQueryInit(args, p3))

\* the query object o, whose _query is the dict at qref, as a value
Deref(heap, qref, o) == [o EXCEPT !.query = heap[qref]]

\* the heap after a method of the object holding the dict at qref returned
\* the object value o
StoreQuery(heap, qref, o) == [heap EXCEPT ![qref] = o.query]

----------------------------------------------------------------------------
(* Lazily resolved fields of an Article.  An attribute access returns      *)
(* [art, res, reqs]: the Article afterwards, the value returned or the     *)
(* exception raised, and the requests that were sent.                      *)

\* the fields declared with @cached_property
LazyFields ==
    {"abstract", "aff", "author", "citation_count", "bibstem", "database",
     "identifier", "first_author_norm", "issue", "keyword", "page",
     "property", "pub", "pubdate", "read_count", "title", "volume", "year"}

\* d[k] = v
SetKey(d, k, v) == [x \in DOMAIN d \cup {k} |-> IF x = k THEN v ELSE d[x]]

\* a property that is computed at every access
StoreNothing(attrs, field, value) == attrs

\* cached_property: the value computed is stored as an instance attribute
StoreOnInstance(attrs, field, value) == SetKey(attrs, field, value)

RECURSIVE ArticleGetAttr(_, _, _, _, _)
RECURSIVE ArticleGetField(_, _, _, _, _)
RECURSIVE GetFieldValue(_, _, _, _, _, _, _)

\* a test that takes an id of None for an id
LacksIdAttribute(a) == ~HasKey(a.attrs, "id")

\* not hasattr(self, "id") or self.id is None
LacksId(a) == ~HasKey(a.attrs, "id") \/ a.attrs.id = PyNone

\* the end of _get_field: n is what next(sq) did for the query q0; the value
\* is the attribute of the same name of the Article it returned, and it is
\* put in _raw
GetFieldValue(a, field, q0, n, db, p3, outcome) ==
    LET reqs == [i \in 1..Len(n.obj.sent) |->
                   [q |-> q0.query.q, fl |-> q0.query.fl,
                    start |-> n.obj.sent[i], rows |-> q0.query.rows]]
        Value(g) ==
            IF g.res.exc # "none"
            THEN [art |-> a, res |-> g.res, reqs |-> reqs \o g.reqs]
            ELSE [art |-> [a EXCEPT !.raw = SetKey(@, field, g.res.obj[1])],
                  res |-> g.res,
                  reqs |-> reqs \o g.reqs]
    IN  IF n.exc # "none"
        THEN [art |-> a, res |-> Raise(n.exc, None), reqs |-> reqs]
        ELSE Value(ArticleGetAttr(n.ret[1], field, db, p3, outcome))

\* Article._get_field(field): a new query for id:<id> asking for the field,
\* its first result, and that result's attribute of the same name
ArticleGetField(a, field, db, p3, outcome) ==
    LET Query(q0) ==
            GetFieldValue(a, field, q0,
                          SQNext(q0, db, p3, outcome, outcome),
                          db, p3, outcome)
    IN  IF LacksId(a)
        THEN [art |-> a,
              res |-> Raise("APIResponseError",
                            "Cannot query an article without an id"),
              reqs |-> <<>>]
        ELSE Query(SearchQueryInit(
                       [DefaultArgs EXCEPT
                          !.q = Some("id:" \o ToString(a.attrs.id)),
                          !.fl = Some(<<field>>)], p3).obj[1])

\* the attribute access a.<field>: an instance attribute when there is one,
\* else the cached_property of that name, else AttributeError
ArticleGetAttr(a, field, db, p3, outcome) ==
    LET Cached(g) ==
            IF g.res.exc # "none" THEN g
            ELSE [g EXCEPT
                    !.art.attrs = StoreOnInstance(@, field, g.res.obj[1])]
    IN  IF HasKey(a.attrs, field)
        THEN [art |-> a, res |-> Return(a.attrs[field]), reqs |-> <<>>]
        ELSE IF field \notin LazyFields
        THEN [art |-> a, res |-> Raise("AttributeError", field), reqs |-> <<>>]
        ELSE Cached(ArticleGetField(a, field, db, p3, outcome))

----------------------------------------------------------------------------
(* BaseQuery: the token and session properties.  A string read from the    *)
(* environment or from a file is a sequence of characters.  A query object *)
(* is seen here as [token, session]: the instance attributes _token and    *)
(* _session, None while the class attribute (None) shows through.  A read  *)
(* of the token returns                                                    *)
(*   [obj, value, warned, consulted]:                                      *)
(* the object afterwards, the value returned, whether "No token found" was *)
(* warned, and the environment variables and files looked at, in order.    *)

\* config.TOKEN_ENVIRON_VARS: a fixed, ordered list of variable names
TOKEN_ENVIRON_VARS == <<"ENV_1", "ENV_2">>

\* config.TOKEN_FILES: a fixed, ordered list of file paths
TOKEN_FILES == <<"file_1", "file_2">>

IsSpace(c) == c \in {" ", "\t", "\n"}

RECURSIVE StripLeft(_)
StripLeft(s) ==
    IF s # <<>> /\ IsSpace(Head(s)) THEN StripLeft(Tail(s)) ELSE s

RECURSIVE StripRight(_)
StripRight(s) ==
    IF s # <<>> /\ IsSpace(s[Len(s)])
    THEN StripRight(SubSeq(s, 1, Len(s) - 1))
    ELSE s

\* str.strip()
Strip(s) == StripRight(StripLeft(s))

\* the smallest element of a non-empty set of numbers
Least(S) == CHOOSE x \in S : \A y \in S : x <= y

\* the names looked up by map(os.environ.get, TOKEN_ENVIRON_VARS) when the
\* loop stops at index hit (0: it runs to the end): map is lazy on Python 3
\* and builds the whole list first on Python 2
EnvironLooked(hit, p3) ==
    IF p3 /\ hit > 0 THEN SubSeq(TOKEN_ENVIRON_VARS, 1, hit)
    ELSE TOKEN_ENVIRON_VARS

\* BaseQuery.token (getter); environ maps each variable name to None or
\* Some(value), files maps each path to None (open raises IOError) or
\* Some(content)
TokenGet(o, environ, files, p3) ==
    LET setVars == {i \in 1..Len(TOKEN_ENVIRON_VARS) :
                      environ[TOKEN_ENVIRON_VARS[i]] # None}
        openable == {i \in 1..Len(TOKEN_FILES) :
                       files[TOKEN_FILES[i]] # None}
        Found(v, looked) ==
            [obj |-> [o EXCEPT !.token = Some(v)], value |-> Some(v),
             warned |-> FALSE, consulted |-> looked]
    IN  IF o.token # None
        THEN [obj |-> o, value |-> o.token, warned |-> FALSE,
              consulted |-> <<>>]
        ELSE IF setVars # {}
        THEN Found(environ[TOKEN_ENVIRON_VARS[Least(setVars)]][1],
                   EnvironLooked(Least(setVars), p3))
        ELSE IF openable # {}
        THEN Found(Strip(files[TOKEN_FILES[Least(openable)]][1]),
                   EnvironLooked(0, p3)
                      \o SubSeq(TOKEN_FILES, 1, Least(openable)))
        ELSE [obj |-> o, value |-> None, warned |-> TRUE,
              consulted |-> EnvironLooked(0, p3) \o TOKEN_FILES]

\* a setter that leaves a token already there alone
TokenSetIfUnset(o, v) == IF o.token = None THEN [o EXCEPT !.token = v] ELSE o

\* BaseQuery.token (setter): self._token = value, value None or Some(v)
TokenSet(o, v) == [o EXCEPT !.token = v]

\* "{}".format(token): the text "None" for None
FormatToken(t) == IF t = None THEN <<"N", "o", "n", "e">> ELSE t[1]

\* the headers of a new session
SessionHeaders(t) ==
    [Authorization |-> <<"Bearer ">> \o FormatToken(t),
     UserAgent |-> <<"ads-api-client/", "__version__">>,
     ContentType |-> <<"application/json">>]

\* requests.session() and headers.update(...): serial tells the sessions
\* apart; tok is the read of self.token made for the headers
NewSession(o, tok, serial) ==
    [obj |-> [tok.obj EXCEPT
                !.session = Some([id |-> serial,
                                  headers |-> SessionHeaders(tok.value)])],
     ret |-> [id |-> serial, headers |-> SessionHeaders(tok.value)],
     made |-> TRUE,
     tok |-> Some(tok)]

\* a session property that builds a session at every read
SessionGetFresh(o, environ, files, p3, serial) ==
    NewSession(o, TokenGet(o, environ, files, p3), serial)

\* BaseQuery.session (getter)
SessionGet(o, environ, files, p3, serial) ==
    IF o.session # None
    THEN [obj |-> o, ret |-> o.session[1], made |-> FALSE, tok |-> None]
    ELSE NewSession(o, TokenGet(o, environ, files, p3), serial)

\* a BaseQuery object after construction: the class attributes
\* _session = None and _token = None show through
BaseQueryNew == [token |-> None, session |-> None]

----------------------------------------------------------------------------
(* MetricsQuery.  A Python value whose type matters is [type, v]: a string *)
(* is [type |-> "str", v |-> s] and a list [type |-> "list", v |-> seq].   *)

\* the name basestring: a builtin of Python 2, undefined on Python 3
Basestring(p3) == IF p3 THEN Raise("NameError", "basestring") ELSE Return("str")

\* json.dumps(x): the text whose decoding is x
JsonDumps(x) == [valid |-> TRUE, doc |-> x]

\* MetricsQuery.__init__(bibcodes)
MetricsQueryInit(bibcodes, p3) ==
    LET list == IF bibcodes.type = "str" THEN <<bibcodes.v>> ELSE bibcodes.v
    IN  IF Basestring(p3).exc # "none" THEN Basestring(p3)
        ELSE Return([response |-> None,
                     bibcodes |-> list,
                     json_payload |-> JsonDumps([bibcodes |-> list]),
                     posts |-> <<>>])

\* MetricsResponse.__init__(raw)
MetricsResponseInit(raw) ==
    IF JsonLoads(raw).exc # "none" THEN JsonLoads(raw)
    ELSE Return([raw |-> raw, metrics |-> JsonLoads(raw).obj[1],
                 response |-> None])

\* APIResponse.load_http_response(HTTPResponse), for cls = MetricsResponse
LoadMetricsResponse(http) ==
    IF ~http.ok THEN Raise("APIResponseError", http.text)
    ELSE LET c == MetricsResponseInit(http.text) IN
         IF c.exc # "none" THEN c
         ELSE Return([c.obj[1] EXCEPT !.response = Some(http)])

\* the HTTP response to a POST of data to the metrics endpoint; outcome
\* picks the answer, a non-2xx response or a body that is no JSON
HttpPost(data, outcome) ==
    CASE outcome = "ok" ->
            [ok |-> TRUE,
             text |-> JsonDumps([metrics |-> data.doc.bibcodes])]
      [] outcome = "http_error" -> [ok |-> FALSE, text |-> ErrorBody]
      [] OTHER -> [ok |-> TRUE, text |-> [valid |-> FALSE, doc |-> <<>>]]

\* MetricsQuery.execute(); posts is the history of the bodies posted
MQExecute(o, outcome) ==
    LET Loaded(r) ==
            IF r.exc # "none"
            THEN [obj |-> [o EXCEPT !.posts = Append(@, o.json_payload)],
                  exc |-> r.exc, ret |-> None]
            ELSE [obj |-> [o EXCEPT !.posts = Append(@, o.json_payload),
                                    !.response = r.obj],
                  exc |-> "none", ret |-> r.obj]
    IN  Loaded(LoadMetricsResponse(HttpPost(o.json_payload, outcome)))

----------------------------------------------------------------------------
(* State.                                                                  *)

VARIABLES
    srvN,        \* size of the server's result list
    py3,         \* the interpreter: TRUE Python 3, FALSE Python 2
    sq,          \* the SearchQuery object
    hist,        \* what the caller saw so far
    call,        \* a call of a constructor or function: arguments, result
    lazy,        \* an Article whose attributes are read, and its service
    auth,        \* two BaseQuery objects and their process environment
    pair,        \* two SearchQuery objects and the dicts they hold
    mq           \* a MetricsQuery object

vars == <<srvN, py3, sq, hist, call, lazy, auth, pair, mq>>

NoAccess ==
    [field |-> "", had |-> FALSE, res |-> Raise("", ""), nreq |-> 0,
     outcome |-> ""]

\* Article(**kwargs), read against a service holding db
LazyNew(kwargs, db) ==
    [art |-> ArticleInit(kwargs),
     db |-> db,
     given |-> DOMAIN kwargs,  \* the fields supplied at construction
     before |-> ArticleInit(kwargs),  \* the Article before the last access
     log |-> <<>>,             \* the requests sent, with the field read
     last |-> NoAccess,        \* the last access
     reads |-> 0]

NoLazy == LazyNew([id |-> 1], <<>>)

NoAuthOp ==
    [op |-> "", obj |-> 0, read |-> FALSE, value |-> None, warned |-> FALSE,
     consulted |-> <<>>, had |-> None, prior |-> None, session |-> None]

\* two query objects in a process with the given environment and files
AuthNew(environ, files) ==
    [environ |-> environ,
     files |-> files,
     objs |-> <<BaseQueryNew, BaseQueryNew>>,
     first |-> <<None, None>>,   \* per object: what the first read of the
                                 \* token returned, None before it
     setTo |-> <<None, None>>,   \* per object: the value last assigned to
                                 \* the token, None when never assigned
     nreq |-> <<0, 0>>,          \* per object: requests sent
     made |-> <<0, 0>>,          \* per object: sessions constructed
     last |-> NoAuthOp,          \* the last operation
     serial |-> 0,               \* sessions constructed in the process
     changes |-> 0,
     steps |-> 0]

NoAuth ==
    AuthNew([v \in Range(TOKEN_ENVIRON_VARS) |-> None],
            [f \in Range(TOKEN_FILES) |-> None])

\* two query objects constructed one after the other: qd1 and qd2 are the
\* indices in heap of the dicts passed as query_dict (0: none passed)
PairNew(heap, qd1, qd2, a) ==
    LET c1 == SearchQueryAt(heap, qd1, a, TRUE)
        c2 == SearchQueryAt(c1.heap, qd2, a, TRUE)
    IN  [heap |-> c2.heap,
         qref |-> <<c1.qref, c2.qref>>,
         objs |-> <<c1.res.obj[1], c2.res.obj[1]>>,
         given |-> <<qd1, qd2>>,
         acted |-> 0,          \* the object the last operation was called on
         op |-> "",            \* the last operation
         ops |-> 0]

NoPair ==
    PairNew(<<>>, 0, 0, [DefaultArgs EXCEPT !.q = Some("unittest")])

\* MetricsQuery(bibcodes) on the interpreter p3
MetricsNew(bibcodes, p3) ==
    [arg |-> bibcodes,
     ctor |-> MetricsQueryInit(bibcodes, p3),  \* the object or the error
     before |-> None,      \* .response before the last execute()
     log |-> <<>>]         \* per execute(): the outcome of the request,
                           \* the exception raised, the value returned

NoMetrics == MetricsNew([type |-> "list", v |-> <<>>], FALSE)

NoCall ==
    [fn |-> "", args |-> None, done |-> FALSE, result |-> Raise("", ""),
     reads |-> 0,        \* reads of the articles view of the envelope
     wrapped |-> 0,      \* Articles constructed by these reads
     view |-> None,      \* the list the last read returned
     assign |-> ""]      \* how an assignment to the articles view ended

StopReasons == {AllFound, MaxQueried}

\* SearchQuery(q="unittest", start=s, rows=r, max_pages=m)
SearchQueryNew(s, r, m) ==
    SearchQueryInit([DefaultArgs EXCEPT !.q = Some("unittest"),
                                        !.start = Some(s),
                                        !.rows = Some(r),
                                        !.max_pages = m], TRUE).obj[1]

NoStop == [reason |-> "", yielded |-> 0, pages |-> 0, pure |-> FALSE]

HistNew(s, m) ==
    [start0 |-> s,           \* start given at construction
     cap0 |-> m,             \* max_pages given at construction
     yielded |-> <<>>,       \* the records next() returned, in order
     firstStop |-> NoStop,   \* the first StopIteration: its reason, the
                             \* records yielded and pages fetched before
                             \* it, and whether only next() was called
     last |-> "init",        \* how the latest call ended
     op |-> "",              \* the latest operation of the caller
     allFound |-> FALSE,     \* next() raised "All records found"
     capStop |-> FALSE,      \* the latest call of next() or execute() was
                             \* a next() that raised "Maximum number of
                             \* pages queried"
     executed |-> FALSE,     \* execute() was called by the caller
     capSet |-> FALSE]       \* max_pages was assigned by the caller

Init ==
    /\ srvN \in 0..MaxN
    /\ py3 \in BOOLEAN
    /\ \E r \in 1..MaxRows, m \in 0..MaxPages :
          /\ sq = SearchQueryNew(0, r, m)
          /\ hist = HistNew(0, m)
    /\ call = NoCall
    /\ lazy = NoLazy
    /\ mq = NoMetrics
    /\ pair = NoPair
    /\ auth = NoAuth

\* the requests of a query object that did not end in a fetched page
NumFailed(o) == Len(o.sent) - o.nexec

\* the outcomes to choose from for the k-th request of a call that sends
\* need requests
OutcomesOf(k, need) == IF k <= need THEN Outcomes ELSE {"ok"}

\* the requests next() sends when every request succeeds
NextSends(o, db, p3) ==
    Len(SQNext(o, db, p3, "ok", "ok").obj.sent) - Len(o.sent)

\* the outcomes to choose from for the request of the implicit first
\* execute() of next(): it is sent when the query has no response yet
FirstOutcomes(o) == IF o.response = None THEN Outcomes ELSE {"ok"}

\* the outcomes to choose from for the request for a further page of
\* next(): it is sent when next() sends a request after the implicit one
FurtherOutcomes(o, db, p3) ==
    IF NextSends(o, db, p3) > (IF o.response = None THEN 1 ELSE 0)
    THEN Outcomes ELSE {"ok"}

\* what the caller of next(sq) sees: r is what the call did
AfterNext(r) ==
    /\ Len(r.obj.sent) <= MaxSent
    /\ NumFailed(r.obj) <= MaxFail
    /\ sq' = r.obj
    /\ hist' = [hist EXCEPT
          !.yielded = IF r.exc = "none" THEN Append(@, r.ret[1]) ELSE @,
          !.firstStop = IF r.exc \in StopReasons /\ @ = NoStop
                        THEN [reason |-> r.exc,
                              yielded |-> Len(hist.yielded),
                              pages |-> r.obj.nexec,
                              pure |-> ~hist.executed /\ ~hist.capSet]
                        ELSE @,
          !.last = IF r.exc = "none" THEN "record" ELSE r.exc,
          !.op = "next",
          !.allFound = @ \/ r.exc = AllFound,
          !.capStop = (r.exc = MaxQueried)]
    /\ UNCHANGED <<srvN, py3, call, lazy, auth, pair, mq>>

\* the caller calls next(sq)
CallNext ==
    \E out1 \in FirstOutcomes(sq),
       out2 \in FurtherOutcomes(sq, ServerDB(srvN), py3) :
        AfterNext(SQNext(sq, ServerDB(srvN), py3, out1, out2))

\* what the caller of sq.execute() sees: r is what the call did
AfterExecute(r) ==
    /\ Len(r.obj.sent) <= MaxSent
    /\ NumFailed(r.obj) <= MaxFail
    /\ sq' = r.obj
    /\ hist' = [hist EXCEPT
          !.last = IF r.exc = "none" THEN "executed" ELSE r.exc,
          !.op = "execute",
          !.capStop = FALSE,
          !.executed = TRUE]
    /\ UNCHANGED <<srvN, py3, call, lazy, auth, pair, mq>>

\* the caller calls sq.execute()
CallExecute ==
    \E out \in Outcomes : AfterExecute(SQExecute(sq, ServerDB(srvN), out))

\* the caller assigns sq.max_pages
SetMaxPages ==
    \E m \in 0..MaxPages :
      /\ m # sq.max_pages
      /\ sq' = [sq EXCEPT !.max_pages = m]
      /\ hist' = [hist EXCEPT !.capSet = TRUE, !.last = "max_pages",
                              !.op = "max_pages"]
      /\ UNCHANGED <<srvN, py3, call, lazy, auth, pair, mq>>

Next == CallNext \/ CallExecute \/ SetMaxPages

Spec == Init /\ [][Next]_vars

----------------------------------------------------------------------------
(* Pagination: claims C1 to C5.                                            *)

Rows == sq.query.rows

\* C1: iterating with next() alone (start 0, page size r, cap m, N records
\* on the server) yields exactly min(N, r*m) records before the first
\* StopIteration.
C1_YieldsMinOfTotalAndCap ==
    hist.firstStop.pure =>
        hist.firstStop.yielded = Min(srvN, Rows * hist.cap0)

\* C2: the first StopIteration of an iteration with next() alone carries
\* "All records found" if and only if N <= r*m, and "Maximum number of pages
\* queried" otherwise.
C2_ReasonIffWithinCap ==
    hist.firstStop.pure =>
        /\ hist.firstStop.reason = AllFound <=> srvN <= Rows * hist.cap0
        /\ hist.firstStop.reason = MaxQueried <=> srvN > Rows * hist.cap0

\* the case of C3: more records than m+1 pages hold
MoreThanCapPlusOne == srvN > Rows * (hist.cap0 + 1)

YieldedIsServerPrefix ==
    /\ Len(hist.yielded) <= srvN
    /\ \A i \in 1..Len(hist.yielded) : hist.yielded[i].raw = ServerDoc(i)

\* C4: after a stop with "Maximum number of pages queried", raising
\* max_pages and calling next() again resumes where iteration left off: the
\* records yielded before and after the stop are, together, a prefix of the
\* server's list in server order (no duplicate, no gap), never longer than N.
C4_ResumeIsPrefix ==
    hist.firstStop.reason = MaxQueried => YieldedIsServerPrefix

\* a run of C4: records were yielded after the stop at the cap
C4_Witness ==
    /\ hist.firstStop.reason = MaxQueried
    /\ hist.capSet
    /\ hist.last = "record"
    /\ Len(hist.yielded) > hist.firstStop.yielded
    /\ hist.firstStop.yielded > 0

\* C5: with start 0, start equals k*rows after k successful page fetches,
\* whoever called execute(); start changes only by +rows and only together
\* with a successful fetch.
C5_StartCountsPages ==
    /\ [](sq.query.start = sq.nexec * Rows)
    /\ [][\/ /\ sq'.query.start = sq.query.start
             /\ sq'.nexec = sq.nexec
          \/ /\ sq'.query.start = sq.query.start + Rows
             /\ sq'.nexec = sq.nexec + 1]_vars

\* a run of C5: pages fetched by execute() and by next(), and a failed fetch
C5_Witness ==
    /\ sq.nexec >= 2
    /\ hist.executed
    /\ Len(hist.yielded) >= 2
    /\ NumFailed(sq) > 0
    /\ sq.query.start = 2 * Rows

----------------------------------------------------------------------------
(* Pagination from any start offset: claims C11 and C12.                   *)

\* a query constructed with start = s for any s up to MaxStart
InitOffset ==
    /\ srvN \in 0..MaxN
    /\ py3 \in BOOLEAN
    /\ \E s \in 0..MaxStart, r \in 1..MaxRows, m \in 0..MaxPages :
          /\ sq = SearchQueryNew(s, r, m)
          /\ hist = HistNew(s, m)
    /\ call = NoCall
    /\ lazy = NoLazy
    /\ mq = NoMetrics
    /\ pair = NoPair
    /\ auth = NoAuth

SpecOffset == InitOffset /\ [][Next]_vars

\* C11: once next() has raised StopIteration("All records found") (the
\* server's result list being fixed), every later next() raises the same
\* stop, returns no record and sends no request, whatever max_pages was set
\* to and whatever execute() calls came in between.
C11_AllFoundIsTerminal ==
    [][(hist.allFound /\ CallNext) =>
          /\ hist'.last = AllFound
          /\ hist'.yielded = hist.yielded
          /\ sq'.sent = sq.sent
          /\ sq' = sq]_vars

\* a run of C11: stopped with all records found after records were yielded,
\* max_pages changed, next() called again
C11_Witness ==
    /\ hist.allFound
    /\ hist.capSet
    /\ hist.last = AllFound
    /\ Len(hist.yielded) > 0
    /\ hist.firstStop.reason = AllFound
    /\ sq.max_pages # hist.cap0

\* a run of C11 with an explicit execute() after the stop
C11_WitnessExecuted ==
    /\ hist.allFound
    /\ hist.executed
    /\ hist.last = AllFound
    /\ Len(hist.yielded) > 0
    /\ sq.nexec > CeilDiv(srvN, Rows)

\* the start offsets sent are start0, and then either the offset before
\* (after a failed request) or the next page's offset
SentInPageOrder ==
    /\ Len(sq.sent) > 0 => sq.sent[1] = hist.start0
    /\ \A i \in 1..(Len(sq.sent) - 1) :
          sq.sent[i + 1] \in {sq.sent[i], sq.sent[i] + Rows}
    /\ sq.query.start = hist.start0 + sq.nexec * Rows
    /\ Len(sq.sent) > 0 =>
          sq.query.start \in {sq.sent[Len(sq.sent)],
                              sq.sent[Len(sq.sent)] + Rows}
    /\ Cardinality(Range(sq.sent)) \in {sq.nexec, sq.nexec + 1}

\* C12: the requests of one query object ask for start0, start0 + rows,
\* start0 + 2*rows, ... in that order: every request asks for the current
\* start; a successful fetch advances start by exactly rows, so that the
\* next request asks for the next page (none skipped) and no fetched page is
\* asked for again; a failed request leaves start where it was.  This holds
\* under every interleaving of next(), execute() and max_pages changes.
C12_PagesInOrderNoSkipNoRefetch ==
    /\ []SentInPageOrder
    /\ [][LET k == Len(sq'.sent) - Len(sq.sent) IN
          /\ k >= 0
          /\ SubSeq(sq'.sent, 1, Len(sq.sent)) = sq.sent
          /\ \A j \in 1..k :
                sq'.sent[Len(sq.sent) + j] = sq.query.start + (j - 1) * Rows
          /\ sq'.nexec - sq.nexec \in {k, k - 1} \cap (0..k)
          /\ sq'.query.start = sq.query.start + (sq'.nexec - sq.nexec) * Rows
          /\ \A i \in 1..Len(sq.sent) :
                sq.sent[i] < sq.query.start =>
                    \A j \in (Len(sq.sent) + 1)..Len(sq'.sent) :
                        sq'.sent[j] # sq.sent[i]]_vars

\* a run of C12: a start offset above 0, pages fetched by next() and by
\* execute(), a failed request repeated, max_pages changed
C12_Witness ==
    /\ hist.start0 > 0
    /\ sq.nexec >= 2
    /\ hist.executed
    /\ hist.capSet
    /\ NumFailed(sq) > 0
    /\ Len(hist.yielded) > 0
    /\ Len(sq.sent) >= 3

----------------------------------------------------------------------------
(* A failed page fetch: claim C21.                                         *)

\* the errors of a page fetch: a response that is not 2xx, and a body
\* without a required key
FetchErrors == {"APIResponseError", "SolrResponseParseError"}

\* o after one more request for its current start was sent, and nothing else
OneMoreRequest(o) == [o EXCEPT !.sent = Append(@, o.query.start)]

\* C21: an execute() whose request is answered with a non-2xx response or
\* with a body missing a required key has sent exactly one request, raises
\* the error to the caller (also through next()), and leaves response,
\* articles, start and the cursor as they were before it: a query whose
\* first fetch failed has still no response, and the request after a failed
\* one asks for the same page.
C21_FailedFetchIsAtomic ==
    /\ [][(CallExecute /\ hist'.last \in FetchErrors) =>
             sq' = OneMoreRequest(sq)]_vars
    /\ [][(CallNext /\ hist'.last \in FetchErrors) =>
             /\ hist'.yielded = hist.yielded
             /\ \/ sq' = OneMoreRequest(sq)
                \/ /\ sq.response = None
                   /\ sq' = OneMoreRequest(
                               SQExecute(sq, ServerDB(srvN), "ok").obj)]_vars
    /\ [][(hist.last \in FetchErrors /\ Len(sq'.sent) > Len(sq.sent)) =>
             sq'.sent[Len(sq.sent) + 1] = sq.sent[Len(sq.sent)]]_vars
    /\ [](sq.nexec = 0 =>
             /\ sq.response = None
             /\ sq.articles = <<>>
             /\ sq.iter_counter = 0
             /\ sq.query.start = hist.start0)
    /\ [](hist.last \in FetchErrors =>
             /\ Len(sq.sent) > 0
             /\ sq.sent[Len(sq.sent)] = sq.query.start)

\* a run of C21: a fetch from inside next() failed after records were
\* accumulated and handed out
C21_Witness ==
    /\ hist.last \in FetchErrors
    /\ ~hist.executed
    /\ sq.nexec > 0
    /\ Len(hist.yielded) = Len(sq.articles)
    /\ Len(hist.yielded) > 0

\* a run of C21: the first fetch failed, and the same page was asked for
\* again and fetched
C21_WitnessRetried ==
    /\ Len(sq.sent) >= 2
    /\ sq.sent[1] = sq.sent[2]
    /\ sq.nexec = 1
    /\ hist.last = "record"

----------------------------------------------------------------------------
(* The order of the two stop conditions: claim C22.                        *)

\* the query as next() finds it when it reads at the cursor: after the
\* implicit first execute() if it had no response
AtCursor(o, db) ==
    IF o.response = None THEN SQExecute(o, db, "ok").obj ELSE o

\* next() came to read at the cursor: no implicit execute(), or one that
\* fetched its page
ReadAtCursor == CallNext /\ (sq.response # None \/ sq'.nexec > sq.nexec)

\* for a query d with its cursor past the accumulated records, page the
\* page number compared with max_pages, last the way next() ended and
\* further the requests sent for a further page: all records found is
\* tested first and stops without a request; the cap stops only when
\* records are missing; a page is requested only when neither test stops
StopOrder(d, page, last, further) ==
    d.iter_counter >= Len(d.articles) =>
        /\ Len(d.articles) >= d.response[1].numFound =>
              (last = AllFound /\ further = 0)
        /\ last = MaxQueried =>
              /\ Len(d.articles) < d.response[1].numFound
              /\ page > d.max_pages
              /\ further = 0
        /\ further > 0 =>
              /\ Len(d.articles) < d.response[1].numFound
              /\ page <= d.max_pages
              /\ further = 1

\* StopOrder for the step taken, with the given page number
StopOrderOfStep(d, page) ==
    StopOrder(d, page, hist'.last, Len(sq'.sent) - Len(d.sent))

\* C22: when next() finds the cursor past the accumulated records, it
\* raises "All records found" if the accumulated count is at least
\* numFound, also when ceil(accumulated / rows) exceeds max_pages; it raises
\* "Maximum number of pages queried" only when the accumulated count is
\* below numFound and ceil(accumulated / rows) exceeds max_pages; and it
\* requests a further page only when neither holds.
C22_StopConditionsInFixedOrder ==
    [][ReadAtCursor =>
          StopOrderOfStep(AtCursor(sq, ServerDB(srvN)),
                          CeilDiv(Len(AtCursor(sq, ServerDB(srvN)).articles),
                                  Rows))]_vars

\* the same order with the page number as the running interpreter
\* computes it
StopOrderAsComputed ==
    [][ReadAtCursor =>
          StopOrderOfStep(AtCursor(sq, ServerDB(srvN)),
                          PageNumber(Len(AtCursor(sq, ServerDB(srvN)).articles),
                                     Rows, py3))]_vars

\* a run with both stop conditions true at once: all records found is the
\* reason given
BothStopConditionsWitness ==
    /\ hist.last = AllFound
    /\ sq.iter_counter = Len(sq.articles)
    /\ Len(sq.articles) >= srvN
    /\ PageNumber(Len(sq.articles), Rows, py3) > sq.max_pages
    /\ srvN > 0

----------------------------------------------------------------------------
(* The read after a further page was fetched: claim C23.                   *)

\* the ways a call of next() ends when every request is answered well
CleanEnds == {"record"} \cup StopReasons

\* next() requested a further page and the page was fetched: d is the query
\* as next() found it at the cursor
FetchedFurther(d) ==
    /\ ReadAtCursor
    /\ Len(sq'.sent) = Len(d.sent) + 1
    /\ sq'.nexec = d.nexec + 1

\* C23: for every start offset and every result set, a next() that fetched
\* a further page returns a record (the read at the cursor succeeds after
\* the fetch); so a next() call ends with a record, with one of the two
\* StopIteration reasons, or with the error of a failed request, and with
\* no other error.
C23_FetchedPageHoldsTheCursor ==
    /\ [][FetchedFurther(AtCursor(sq, ServerDB(srvN))) =>
             /\ hist'.last = "record"
             /\ sq'.iter_counter <= Len(sq'.articles)]_vars
    /\ [][CallNext => hist'.last \in CleanEnds \cup FetchErrors]_vars

\* the same for the queries constructed with start 0
FetchedPageHoldsTheCursorFromStartZero ==
    /\ [][(hist.start0 = 0 /\ FetchedFurther(AtCursor(sq, ServerDB(srvN)))) =>
             /\ hist'.last = "record"
             /\ sq'.iter_counter <= Len(sq'.articles)]_vars
    /\ [][(hist.start0 = 0 /\ CallNext) =>
             hist'.last \in CleanEnds \cup FetchErrors]_vars

\* a run from start 0 in which next() fetched a further page after the cap
\* was changed and a request had failed
FetchedFurtherFromStartZeroWitness ==
    /\ hist.start0 = 0
    /\ hist.last = "record"
    /\ sq.nexec >= 2
    /\ sq.iter_counter = (sq.nexec - 1) * Rows + 1
    /\ NumFailed(sq) > 0

----------------------------------------------------------------------------
(* The stop at the cap: claim C24.                                         *)

\* next() is called right after a next() that stopped at the cap
NextAfterCapStop == hist.last = MaxQueried /\ CallNext

\* next() is called after a next() that stopped at the cap and after
\* max_pages was then set to at least ceil(accumulated / rows)
NextAfterCapRaised ==
    /\ hist.capStop
    /\ hist.last = "max_pages"
    /\ sq.max_pages >= CeilDiv(Len(sq.articles), Rows)
    /\ CallNext

\* the call sent exactly one request, and returned a record unless the
\* request failed
OneRequestThenRecord ==
    /\ Len(sq'.sent) = Len(sq.sent) + 1
    /\ hist'.last \notin FetchErrors =>
          /\ hist'.last = "record"
          /\ sq'.nexec = sq.nexec + 1
          /\ sq'.iter_counter = sq.iter_counter + 1

\* C24: after next() raised "Maximum number of pages queried", a further
\* next() with max_pages unchanged raises the same stop, sends no request
\* and leaves cursor, articles and start unchanged; once max_pages is set to
\* at least ceil(accumulated / rows), the next next() sends exactly one page
\* request and returns a record.
C24_CapStopStableAndResumable ==
    /\ [][NextAfterCapStop =>
             /\ hist'.last = MaxQueried
             /\ hist'.yielded = hist.yielded
             /\ sq' = sq]_vars
    /\ [][NextAfterCapRaised => OneRequestThenRecord]_vars

\* the same for the queries constructed with start 0
CapStopStableAndResumableFromStartZero ==
    /\ [][NextAfterCapStop =>
             /\ hist'.last = MaxQueried
             /\ hist'.yielded = hist.yielded
             /\ sq' = sq]_vars
    /\ [][(hist.start0 = 0 /\ NextAfterCapRaised) =>
             OneRequestThenRecord]_vars

\* a run from start 0: stopped at the cap twice in a row, the cap raised,
\* the next record returned
CapStopResumedFromStartZeroWitness ==
    /\ hist.start0 = 0
    /\ hist.firstStop.reason = MaxQueried
    /\ hist.firstStop.pure
    /\ hist.capSet
    /\ ~hist.executed
    /\ hist.last = "record"
    /\ Len(hist.yielded) = hist.firstStop.yielded + 1
    /\ sq.nexec = hist.firstStop.pages + 1

----------------------------------------------------------------------------
(* Iteration to the end of the result list: claim C25.                     *)

Max(a, b) == IF a >= b THEN a ELSE b

\* the pages an iteration over N records has to fetch
PagesNeeded == Max(1, CeilDiv(srvN, Rows))

\* only next() was called so far, on a query whose cap is at least the
\* number of pages the result list has
NextOnlyUnderWideCap ==
    /\ ~hist.executed
    /\ ~hist.capSet
    /\ hist.cap0 >= CeilDiv(srvN, Rows)

\* C25: from start 0, for every N (N = 0 and N not a multiple of rows
\* included) and a cap that does not bind, iteration by next() yields
\* exactly the N records, then raises "All records found", after exactly
\* max(1, ceil(N / rows)) pages were fetched, which are all the requests
\* sent when no request failed; no request after the first asks for a page
\* whose start offset is numFound or more.
C25_AllFoundByNumFound ==
    NextOnlyUnderWideCap =>
        /\ YieldedIsServerPrefix
        /\ sq.nexec <= PagesNeeded
        /\ NumFailed(sq) = 0 =>
              \A i \in 2..Len(sq.sent) : sq.sent[i] < srvN
        /\ hist.last \notin {"IndexError", MaxQueried}
        /\ hist.firstStop.reason # "" =>
              /\ hist.firstStop.reason = AllFound
              /\ hist.firstStop.yielded = srvN
              /\ Len(hist.yielded) = srvN
              /\ hist.firstStop.pages = PagesNeeded
              /\ sq.nexec = PagesNeeded
              /\ NumFailed(sq) = 0 => Len(sq.sent) = PagesNeeded

\* a run of C25: a result list whose last page is short, iterated to the end
C25_Witness ==
    /\ NextOnlyUnderWideCap
    /\ hist.firstStop.reason = AllFound
    /\ srvN > Rows
    /\ srvN % Rows # 0
    /\ Len(hist.yielded) = srvN
    /\ NumFailed(sq) = 0

\* a run of C25 over a result list of full pages
C25_WitnessFullPages ==
    /\ NextOnlyUnderWideCap
    /\ hist.firstStop.reason = AllFound
    /\ srvN = 2 * Rows
    /\ Len(sq.sent) = 2

\* a run of C25 over an empty result list
C25_WitnessEmpty ==
    /\ NextOnlyUnderWideCap
    /\ hist.firstStop.reason = AllFound
    /\ srvN = 0
    /\ Len(sq.sent) = 1

----------------------------------------------------------------------------
(* Accumulated records, cursor and records handed out: claim C26.          *)

\* the accumulated records are the first records of the server's list
ArticlesAreServerPrefix ==
    /\ Len(sq.articles) <= srvN
    /\ \A i \in 1..Len(sq.articles) : sq.articles[i].raw = ServerDoc(i)

\* the records handed out are the accumulated records before the cursor
YieldedUpToCursor ==
    /\ sq.iter_counter \in 0..Len(sq.articles)
    /\ Len(hist.yielded) = sq.iter_counter
    /\ hist.yielded = SubSeq(sq.articles, 1, sq.iter_counter)

\* C26: in every state of a query constructed with start 0 (fixed result
\* list; any interleaving of next(), execute(), failed requests and
\* max_pages changes) the accumulated records are the first len(articles)
\* records of the server's list in server order, 0 <= cursor <=
\* len(articles), and the records handed out are articles[0..cursor) in
\* order, one per next() that returned; a next() whose cursor is inside the
\* accumulated records returns articles[cursor], sends no request and
\* advances the cursor by one; execute() never moves the cursor.
C26_PrefixAndCursorInvariant ==
    /\ [](ArticlesAreServerPrefix /\ YieldedUpToCursor)
    /\ [][(hist'.op = "next" /\ sq.iter_counter < Len(sq.articles)) =>
             /\ hist'.last = "record"
             /\ hist'.yielded =
                   Append(hist.yielded, sq.articles[sq.iter_counter + 1])
             /\ sq' = [sq EXCEPT !.iter_counter = @ + 1]]_vars
    /\ [][hist'.op = "next" =>
             /\ sq'.iter_counter \in {sq.iter_counter, sq.iter_counter + 1}
             /\ sq'.iter_counter = sq.iter_counter + 1
                   <=> hist'.last = "record"]_vars
    /\ [][hist'.op = "execute" =>
             /\ sq'.iter_counter = sq.iter_counter
             /\ hist'.yielded = hist.yielded]_vars

\* a run of C26: next() returned a record from the accumulated ones, after
\* execute() calls, a failed request and a max_pages change
C26_Witness ==
    /\ hist.last = "record"
    /\ hist.executed
    /\ hist.capSet
    /\ NumFailed(sq) > 0
    /\ sq.iter_counter >= 2
    /\ sq.iter_counter < Len(sq.articles)
    /\ sq.nexec >= 2

----------------------------------------------------------------------------
(* list(sq): claim C27.                                                    *)

\* a query constructed with start 0, about to be iterated
InitList == Init

\* one turn of the loop of list(sq): next() is called until it raises; every
\* request is answered well
ListNext ==
    /\ hist.last \in {"init", "record"}
    /\ AfterNext(SQNext(sq, ServerDB(srvN), py3, "ok", "ok"))

NextList == ListNext

\* the loop goes on while next() returns
SpecList == InitList /\ [][NextList]_vars /\ WF_vars(ListNext)

\* C27: for a fixed finite result list, start 0, a fixed max_pages and
\* requests that always succeed, calling next() again and again eventually
\* raises StopIteration, after no more page requests than the result list
\* has pages and no more records than it holds.
C27_IterationTerminates ==
    /\ <>(hist.last \in StopReasons)
    /\ [](/\ Len(sq.sent) <= PagesNeeded
          /\ Len(sq.sent) <= Max(1, sq.max_pages + 1)
          /\ Len(hist.yielded) <= srvN
          /\ hist.last \in {"init", "record"} \cup StopReasons)

\* a run of C27: several pages fetched, all records returned, iteration
\* stopped
C27_Witness ==
    /\ hist.last \in StopReasons
    /\ sq.nexec >= 2
    /\ Len(hist.yielded) = srvN
    /\ srvN > Rows

\* a run of C27 that stopped at the cap
C27_WitnessAtCap ==
    /\ hist.last = MaxQueried
    /\ sq.nexec >= 2
    /\ Len(hist.yielded) < srvN

----------------------------------------------------------------------------
(* Construction of a SearchQuery: claim C6.                                *)

\* the query_dict arguments tried: any subset of the keys q, rows, start
QueryDicts ==
    LET Qs == {None, Some(""), Some("a")}
        Rs == {None, Some(0), Some(1)}
        Ss == {None, Some(0)}
        Dict(q, r, st) ==
            LET given == [q |-> q, rows |-> r, start |-> st] IN
            [k \in {x \in DOMAIN given : given[x] # None} |-> given[k][1]]
    IN  {Dict(q, r, st) : q \in Qs, r \in Rs, st \in Ss}

\* the argument lists tried: a query_dict alone, or individual parameters
CtorArgs ==
    {[DefaultArgs EXCEPT !.query_dict = Some(d)] : d \in QueryDicts}
    \cup
    {[DefaultArgs EXCEPT !.q = q, !.fq = fq, !.rows = r, !.kwargs = kw] :
        q \in {None, Some(""), Some("a")},
        fq \in {None, Some("f")},
        r \in {None, Some(-1), Some(0), Some(1), Some(50)},
        kw \in {<<>>, <<<<"author", "x">>>>}}

InitCtor ==
    /\ srvN = 0
    /\ py3 \in BOOLEAN
    /\ sq = SearchQueryNew(0, 1, 0)
    /\ hist = HistNew(0, 0)
    /\ lazy = NoLazy
    /\ mq = NoMetrics
    /\ pair = NoPair
    /\ auth = NoAuth
    /\ \E a \in CtorArgs :
          call = [NoCall EXCEPT !.fn = "SearchQuery", !.args = Some(a)]

\* the caller constructs SearchQuery(**args)
Construct ==
    /\ call.fn = "SearchQuery"
    /\ ~call.done
    /\ call' = [call EXCEPT !.done = TRUE,
                            !.result = SearchQueryInit(call.args[1], py3)]
    /\ UNCHANGED <<srvN, py3, sq, hist, lazy, auth, pair, mq>>

NextCtor == Construct

SpecCtor == InitCtor /\ [][NextCtor]_vars

\* the rows the arguments ask for, None when no rows is given
AskedRows(a) ==
    IF a.query_dict = None THEN a.rows
    ELSE IF HasKey(a.query_dict[1], "rows") THEN Some(a.query_dict[1].rows)
    ELSE Some(50)

\* whether the arguments give a non-empty final filter text
AskedQNonEmpty(a) ==
    IF a.query_dict = None
    THEN (a.q # None /\ a.q[1] # "") \/ a.kwargs # <<>>
    ELSE HasKey(a.query_dict[1], "q") /\ a.query_dict[1].q # ""

\* C6: constructing a SearchQuery succeeds only when rows > 0 and the final
\* filter text is non-empty, through individual parameters or through
\* query_dict (rows defaulting to 50, start to 0); otherwise construction
\* fails with an error, so no query with rows <= 0 or empty q exists.
C6_ConstructionChecksRowsAndQ ==
    (call.fn = "SearchQuery" /\ call.done) =>
        LET a == call.args[1]
            r == call.result
        IN  /\ r.exc = "none" <=>
                  /\ AskedRows(a) # None
                  /\ AskedRows(a)[1] > 0
                  /\ AskedQNonEmpty(a)
            /\ r.exc # "none" =>
                  /\ r.obj = None
                  /\ r.exc \in {"AssertionError", "TypeError"}
            /\ r.exc = "none" =>
                  /\ r.obj[1].query.rows > 0
                  /\ r.obj[1].query.q # ""
                  /\ r.obj[1].query.rows = AskedRows(a)[1]
                  /\ HasKey(r.obj[1].query, "start")
                  /\ (a.query_dict # None
                      /\ ~HasKey(a.query_dict[1], "start"))
                     => r.obj[1].query.start = 0

\* constructions of C6: one refused for its rows, one refused for its q, one
\* accepted with the defaults of query_dict, one accepted with keyword terms
\* only
C6_WitnessRefusedRows ==
    /\ call.fn = "SearchQuery" /\ call.done
    /\ call.result.exc # "none"
    /\ AskedQNonEmpty(call.args[1])
    /\ AskedRows(call.args[1]) = Some(0)

C6_WitnessAccepted ==
    /\ call.fn = "SearchQuery" /\ call.done
    /\ call.result.exc = "none"
    /\ call.args[1].query_dict # None
    /\ ~HasKey(call.args[1].query_dict[1], "rows")
    /\ call.result.obj[1].query.rows = 50

C6_Witness ==
    /\ call.fn = "SearchQuery" /\ call.done
    /\ call.result.exc = "none"
    /\ call.args[1].q = None
    /\ call.args[1].kwargs # <<>>
    /\ call.result.obj[1].query.q = " author:\"x\""

----------------------------------------------------------------------------
(* Comparison of two Articles: claim C7.                                   *)

\* the keyword arguments the compared Articles are built from: bibcode
\* absent, None or one of two values, with or without other fields
ArticleKwargs ==
    LET Dict(b, y, i) ==
            LET given == [bibcode |-> b, year |-> y, id |-> i] IN
            [k \in {x \in DOMAIN given : given[x] # None} |-> given[k][1]]
    IN  {Dict(b, y, i) : b \in {None, Some(PyNone), Some(11), Some(12)},
                         y \in {None, Some(2013), Some(2014)},
                         i \in {None, Some(1)}}

InitEq ==
    /\ srvN = 0
    /\ py3 \in BOOLEAN
    /\ sq = SearchQueryNew(0, 1, 0)
    /\ hist = HistNew(0, 0)
    /\ lazy = NoLazy
    /\ mq = NoMetrics
    /\ pair = NoPair
    /\ auth = NoAuth
    /\ \E ka \in ArticleKwargs, kb \in ArticleKwargs :
          call = [NoCall EXCEPT
                    !.fn = "Article",
                    !.args = Some(<<ArticleInit(ka), ArticleInit(kb)>>)]

\* the caller evaluates a == b
CompareEq ==
    /\ call.fn = "Article"
    /\ ~call.done
    /\ call' = [call EXCEPT
                  !.fn = "Article.__eq__",
                  !.done = TRUE,
                  !.result = ArticleEq(call.args[1][1], call.args[1][2])]
    /\ UNCHANGED <<srvN, py3, sq, hist, lazy, auth, pair, mq>>

\* the caller evaluates a != b
CompareNe ==
    /\ call.fn = "Article"
    /\ ~call.done
    /\ call' = [call EXCEPT
                  !.fn = "Article.__ne__",
                  !.done = TRUE,
                  !.result = ArticleNe(call.args[1][1], call.args[1][2])]
    /\ UNCHANGED <<srvN, py3, sq, hist, lazy, auth, pair, mq>>

NextEq == CompareEq \/ CompareNe

SpecEq == InitEq /\ [][NextEq]_vars

\* the article was given a bibcode other than None
GivenBibcode(a) == HasKey(a.raw, "bibcode") /\ a.raw.bibcode # PyNone

\* C7: when both Articles carry a non-null bibcode, a == b is true exactly
\* when the bibcodes are equal and a != b is its negation, whatever the other
\* fields are; when either has no bibcode (absent or None), both a == b and
\* a != b raise TypeError instead of returning a boolean.
C7_EqualityByBibcode ==
    (call.fn \in {"Article.__eq__", "Article.__ne__"} /\ call.done) =>
        LET a == call.args[1][1]
            b == call.args[1][2]
            r == call.result
        IN  IF GivenBibcode(a) /\ GivenBibcode(b)
            THEN /\ r.exc = "none"
                 /\ r.obj[1] = IF call.fn = "Article.__eq__"
                               THEN a.raw.bibcode = b.raw.bibcode
                               ELSE a.raw.bibcode # b.raw.bibcode
            ELSE /\ r.exc = "TypeError"
                 /\ r.obj = None

\* comparisons of C7: equal bibcodes with different other fields compare
\* equal, and a comparison with a bibcode of None raises
C7_Witness ==
    /\ call.fn = "Article.__eq__" /\ call.done
    /\ call.result.exc = "none"
    /\ call.result.obj[1]
    /\ call.args[1][1].raw # call.args[1][2].raw

C7_WitnessRaises ==
    /\ call.fn = "Article.__ne__" /\ call.done
    /\ call.result.exc = "TypeError"
    /\ GivenBibcode(call.args[1][1])
    /\ HasKey(call.args[1][2].raw, "bibcode")

----------------------------------------------------------------------------
(* Parsing a response: claims C9 and C10.                                  *)

NotJson == [valid |-> FALSE, doc |-> [error |-> 1]]

\* the bodies tried: every combination of present and absent required keys,
\* numFound and docs chosen independently, a body that is no JSON, and an
\* error body
Bodies ==
    LET Headers == {None, Some([x \in {} |-> 0]),
                    Some([params |-> [q |-> "unittest"]])}
        Docs == {None, Some(<<>>), Some(<<ServerDoc(1)>>),
                 Some(<<ServerDoc(1), ServerDoc(2)>>)}
        Founds == {None, Some(0), Some(1), Some(2)}
        Inner(n, d) ==
            LET given == [numFound |-> n, docs |-> d] IN
            [k \in {x \in DOMAIN given : given[x] # None} |-> given[k][1]]
        Responses == {None} \cup {Some(Inner(n, d)) : n \in Founds, d \in Docs}
        Outer(h, r) ==
            LET given == [responseHeader |-> h, response |-> r] IN
            [k \in {x \in DOMAIN given : given[x] # None} |-> given[k][1]]
    IN  {[valid |-> TRUE, doc |-> Outer(h, r)] : h \in Headers, r \in Responses}
        \cup {NotJson, ErrorBody}

InitParse ==
    /\ srvN = 0
    /\ py3 \in BOOLEAN
    /\ sq = SearchQueryNew(0, 1, 0)
    /\ hist = HistNew(0, 0)
    /\ lazy = NoLazy
    /\ mq = NoMetrics
    /\ pair = NoPair
    /\ auth = NoAuth
    /\ \E ok \in BOOLEAN, text \in Bodies :
          call = [NoCall EXCEPT !.fn = "http",
                                !.args = Some([ok |-> ok, text |-> text])]

\* the caller constructs SolrResponse(HTTPResponse.text)
Parse ==
    /\ call.fn = "http"
    /\ ~call.done
    /\ call' = [call EXCEPT !.fn = "SolrResponse",
                            !.done = TRUE,
                            !.result = SolrResponseInit(call.args[1].text)]
    /\ UNCHANGED <<srvN, py3, sq, hist, lazy, auth, pair, mq>>

\* the caller calls SolrResponse.load_http_response(HTTPResponse)
Load ==
    /\ call.fn = "http"
    /\ ~call.done
    /\ call' = [call EXCEPT !.fn = "load_http_response",
                            !.done = TRUE,
                            !.result = LoadHttpResponse(call.args[1])]
    /\ UNCHANGED <<srvN, py3, sq, hist, lazy, auth, pair, mq>>

\* the caller reads the articles view of the envelope it got
ReadArticles ==
    /\ call.fn \in {"SolrResponse", "load_http_response"}
    /\ call.done
    /\ call.result.exc = "none"
    /\ call.reads < MaxReads
    /\ call' = [call EXCEPT
                  !.reads = @ + 1,
                  !.wrapped = @ + SolrArticlesWraps(call.result.obj[1]),
                  !.view = Some(SolrArticles(call.result.obj[1])),
                  !.result.obj = Some(SolrArticlesTouch(call.result.obj[1]))]
    /\ UNCHANGED <<srvN, py3, sq, hist, lazy, auth, pair, mq>>

\* the caller assigns a list to the articles view of the envelope it got
AssignArticles ==
    /\ call.fn \in {"SolrResponse", "load_http_response"}
    /\ call.done
    /\ call.result.exc = "none"
    /\ call.assign = ""
    /\ \E value \in {<<>>, <<ArticleInit(ServerDoc(3))>>} :
          call' = [call EXCEPT
                     !.assign = SolrArticlesAssign(call.result.obj[1],
                                                   value).exc,
                     !.result.obj =
                        Some(SolrArticlesAssign(call.result.obj[1],
                                                value).obj)]
    /\ UNCHANGED <<srvN, py3, sq, hist, lazy, auth, pair, mq>>

NextParse == Parse \/ Load \/ ReadArticles \/ AssignArticles

SpecParse == InitParse /\ [][NextParse]_vars

\* the required keys that a decoded body lacks
MissingKeys(j) ==
    {k \in {"responseHeader", "response"} : ~HasKey(j, k)}
    \cup (IF HasKey(j, "responseHeader") /\ HasKey(j.responseHeader, "params")
          THEN {} ELSE {"params"})
    \cup {k \in {"numFound", "docs"} :
            ~(HasKey(j, "response") /\ HasKey(j.response, k))}

\* C9: parsing a search response body raises SolrResponseParseError naming
\* a missing key whenever a required key (responseHeader, its params,
\* response, its numFound, its docs) is absent, and then no envelope is
\* produced; when all are present the envelope exposes numFound and its
\* articles view holds exactly one Article per entry of docs.
C9_ParseAllOrNothing ==
    (call.fn = "SolrResponse" /\ call.done /\ call.args[1].text.valid) =>
        LET j == call.args[1].text.doc
            r == call.result
        IN  IF MissingKeys(j) # {}
            THEN /\ r.exc = "SolrResponseParseError"
                 /\ \E k \in MissingKeys(j) : r.arg = "'" \o k \o "'"
                 /\ r.obj = None
            ELSE /\ r.exc = "none"
                 /\ r.obj[1].numFound = j.response.numFound
                 /\ r.obj[1].docs = j.response.docs
                 /\ call.reads = 0 => r.obj[1].articles = None
                 /\ call.reads > 0 =>
                      /\ r.obj[1].articles # None
                      /\ Len(r.obj[1].articles[1]) = Len(j.response.docs)
                      /\ \A i \in 1..Len(j.response.docs) :
                            r.obj[1].articles[1][i].raw = j.response.docs[i]

\* parses of C9: numFound = 1 with one doc gives one record; a body whose
\* header has no params is refused
C9_Witness ==
    /\ call.fn = "SolrResponse" /\ call.done
    /\ call.reads > 0
    /\ call.result.obj[1].numFound = 1
    /\ Len(call.result.obj[1].docs) = 1
    /\ Len(call.result.obj[1].articles[1]) = 1

C9_WitnessRefused ==
    /\ call.fn = "SolrResponse" /\ call.done
    /\ call.result.exc = "SolrResponseParseError"
    /\ call.result.arg = "'params'"
    /\ HasKey(call.args[1].text.doc, "responseHeader")

C10_WitnessFailed ==
    /\ call.fn = "load_http_response" /\ call.done
    /\ ~call.args[1].ok
    /\ ~call.args[1].text.valid
    /\ call.result.exc = "APIResponseError"

----------------------------------------------------------------------------
(* The articles view of an envelope: claim C19.                            *)

\* the call returned an envelope
GotEnvelope ==
    /\ call.fn \in {"SolrResponse", "load_http_response"}
    /\ call.done
    /\ call.result.exc = "none"

\* C19: the articles view of a parsed envelope is unset until it is first
\* read; the first read builds it, one Article per entry of docs in the
\* order of docs; every later read returns that list and constructs no
\* Article; assigning to the view raises AttributeError and changes nothing.
C19_ArticlesViewMemoized ==
    /\ [](GotEnvelope =>
            LET env == call.result.obj[1] IN
            /\ call.reads = 0 =>
                  /\ env.articles = None
                  /\ call.wrapped = 0
            /\ call.reads > 0 =>
                  /\ env.articles # None
                  /\ call.view = env.articles
                  /\ call.wrapped = Len(env.docs)
                  /\ Len(env.articles[1]) = Len(env.docs)
                  /\ \A i \in 1..Len(env.docs) :
                        env.articles[1][i] = ArticleInit(env.docs[i])
            /\ call.assign \in {"", "AttributeError"})
    /\ [][(GotEnvelope /\ call'.assign # call.assign) =>
              /\ call'.assign = "AttributeError"
              /\ call'.result = call.result]_vars
    /\ [][(GotEnvelope /\ call.reads > 0) =>
              /\ call'.result.obj[1].articles = call.result.obj[1].articles
              /\ call'.wrapped = call.wrapped]_vars

\* a run of C19: two docs, the view read twice, an assignment refused
C19_Witness ==
    /\ GotEnvelope
    /\ call.reads = 2
    /\ Len(call.result.obj[1].docs) = 2
    /\ call.wrapped = 2
    /\ call.assign = "AttributeError"
    /\ call.view = Some(<<ArticleInit(ServerDoc(1)), ArticleInit(ServerDoc(2))>>)

----------------------------------------------------------------------------
(* Reading the attributes of an Article: claim C8.                         *)

\* the fields read
AccessFields == {"title", "year", "abstract"}

\* the keyword arguments the Article is built from: id absent, None or 1,
\* title and year absent or given (year also given as None)
LazyKwargs ==
    LET Dict(i, t, y) ==
            LET given == [id |-> i, title |-> t, year |-> y] IN
            [k \in {x \in DOMAIN given : given[x] # None} |-> given[k][1]]
    IN  {Dict(i, t, y) : i \in {None, Some(PyNone), Some(1)},
                         t \in {None, Some(31)},
                         y \in {None, Some(PyNone), Some(2014)}}

\* the services tried: no record, or the record with id 1 holding any of
\* title, year and abstract
LazyServices ==
    LET Rec(t, y, ab) ==
            LET given == [id |-> Some(1), title |-> t, year |-> y,
                          abstract |-> ab] IN
            [k \in {x \in DOMAIN given : given[x] # None} |-> given[k][1]]
    IN  {<<>>} \cup {<<Rec(t, y, ab)>> : t \in {None, Some(21)},
                                        y \in {None, Some(2013)},
                                        ab \in {None, Some(22)}}

InitLazy ==
    /\ srvN = 0
    /\ py3 \in BOOLEAN
    /\ sq = SearchQueryNew(0, 1, 0)
    /\ hist = HistNew(0, 0)
    /\ call = NoCall
    /\ \E kw \in LazyKwargs, db \in LazyServices : lazy = LazyNew(kw, db)
    /\ mq = NoMetrics
    /\ pair = NoPair
    /\ auth = NoAuth

\* the requests the access sends when every request succeeds
AccessSends(f) == Len(ArticleGetAttr(lazy.art, f, lazy.db, py3, "ok").reqs)

\* what the read of f did to the caller's Article: g is the access
Accessed(f, outcome, g) ==
    [lazy EXCEPT
        !.art = g.art,
        !.before = lazy.art,
        !.log = @ \o [i \in 1..Len(g.reqs) |->
                        [req |-> g.reqs[i], field |-> f,
                         outcome |-> outcome,
                         hit |-> g.res.exc = "none"]],
        !.last = [field |-> f,
                  had |-> HasKey(lazy.art.attrs, f),
                  res |-> g.res,
                  nreq |-> Len(g.reqs),
                  outcome |-> outcome],
        !.reads = @ + 1]

\* the caller reads lazy.art.<f>
Access ==
    \E f \in AccessFields : \E outcome \in OutcomesOf(1, AccessSends(f)) :
        /\ lazy.reads < MaxAccess
        /\ lazy' = Accessed(f, outcome,
                            ArticleGetAttr(lazy.art, f, lazy.db, py3, outcome))
        /\ UNCHANGED <<srvN, py3, sq, hist, call, auth, pair, mq>>

NextLazy == Access

SpecLazy == InitLazy /\ [][NextLazy]_vars

\* the Article was given an id other than None
GivenId == "id" \in lazy.given /\ lazy.before.raw.id # PyNone

\* the requests sent for reads of field f
RequestsFor(f) == {i \in 1..Len(lazy.log) : lazy.log[i].field = f}

\* the service holds the Article's record and the record has field f
ServiceHas(f) ==
    \E i \in 1..Len(lazy.db) :
        /\ lazy.db[i].id = lazy.before.raw.id
        /\ HasKey(lazy.db[i], f)

ServiceValue(f) ==
    LET i == CHOOSE k \in 1..Len(lazy.db) :
                 lazy.db[k].id = lazy.before.raw.id
    IN  lazy.db[i][f]

\* every request of the Article was answered, and the service holds the
\* Article's record
ServiceAnswers ==
    /\ \A i \in 1..Len(lazy.log) : lazy.log[i].outcome = "ok"
    /\ \E i \in 1..Len(lazy.db) : lazy.db[i].id = lazy.before.raw.id

\* C8: for an Article with a non-null id (read over a working transport from
\* a service that holds its record), the first read of a field not supplied
\* at construction sends exactly one back-query (q = id:<id>, fl = the
\* field) and caches the value on the record; every later read of the field
\* sends nothing, so that at most one request is ever sent per field; fields
\* supplied at construction send none; resolving a field neither resolves
\* nor re-fetches another.
C8_OneRequestPerFieldEver ==
    (GivenId /\ ServiceAnswers /\ lazy.last.field # "") =>
        /\ (~lazy.last.had /\ lazy.last.field \in LazyFields) =>
              /\ lazy.last.nreq = 1
              /\ lazy.log[Len(lazy.log)].req.q
                    = "id:" \o ToString(lazy.before.raw.id)
              /\ lazy.log[Len(lazy.log)].req.fl = <<lazy.last.field>>
              /\ HasKey(lazy.art.attrs, lazy.last.field)
              /\ DOMAIN lazy.art.attrs
                    = DOMAIN lazy.before.attrs \cup {lazy.last.field}
        /\ lazy.last.had =>
              /\ lazy.last.nreq = 0
              /\ lazy.last.res = Return(lazy.before.attrs[lazy.last.field])
        /\ \A f \in AccessFields : Cardinality(RequestsFor(f)) <= 1
        /\ \A f \in lazy.given : RequestsFor(f) = {}

\* What the code does for an Article with a non-null id: a read of a lazy
\* field that is not on the record sends exactly one back-query (q =
\* id:<id>, fl = the field); when the answer is a record carrying the field,
\* the value is returned and cached under that field only; otherwise the
\* read raises and the record is left as it was.  A read of a field that is
\* on the record (supplied or cached) sends nothing, returns the stored
\* value and changes nothing.  No field is resolved with success twice, and
\* no request is ever sent for a supplied field.
ResolveOnceWhenAnswered ==
    (GivenId /\ lazy.last.field # "") =>
        LET f == lazy.last.field
            b == lazy.before
            ans == lazy.last.outcome = "ok" /\ ServiceHas(f)
        IN  /\ lazy.last.had =>
                  /\ lazy.last.nreq = 0
                  /\ lazy.last.res = Return(b.attrs[f])
                  /\ lazy.art = b
            /\ (~lazy.last.had /\ f \in LazyFields) =>
                  /\ lazy.last.nreq = 1
                  /\ lazy.log[Len(lazy.log)].req.q
                        = "id:" \o ToString(b.raw.id)
                  /\ lazy.log[Len(lazy.log)].req.fl = <<f>>
                  /\ lazy.log[Len(lazy.log)].field = f
                  /\ ans <=> lazy.last.res.exc = "none"
                  /\ ans =>
                        /\ lazy.last.res = Return(ServiceValue(f))
                        /\ lazy.art.attrs = SetKey(b.attrs, f, ServiceValue(f))
                        /\ lazy.art.raw = SetKey(b.raw, f, ServiceValue(f))
                  /\ ~ans => lazy.art = b
            /\ \A g \in AccessFields :
                  Cardinality({i \in RequestsFor(g) : lazy.log[i].hit}) <= 1
            /\ \A g \in lazy.given : RequestsFor(g) = {}

\* two missing fields resolved by one request each, then the first read
\* again without a request
ResolvedTwoFields ==
    /\ GivenId
    /\ lazy.last.had
    /\ lazy.last.nreq = 0
    /\ lazy.last.field \notin lazy.given
    /\ Len(lazy.log) = 2
    /\ lazy.log[1].hit /\ lazy.log[2].hit
    /\ lazy.log[1].field # lazy.log[2].field
    /\ lazy.last.field = lazy.log[1].field

----------------------------------------------------------------------------
(* Token and session of a query object: claims C13 to C16.                 *)

\* the environments tried: the first variable unset, empty or set, the
\* second unset or set
Environs ==
    {[v \in Range(TOKEN_ENVIRON_VARS) |->
        IF v = TOKEN_ENVIRON_VARS[1] THEN e1 ELSE e2] :
        e1 \in {None, Some(<<>>), Some(<<"a">>)},
        e2 \in {None, Some(<<"b">>)}}

\* the token files tried: the first missing, blank or holding a token with
\* white space around it, the second missing or holding a token
FileSystems ==
    {[f \in Range(TOKEN_FILES) |->
        IF f = TOKEN_FILES[1] THEN f1 ELSE f2] :
        f1 \in {None, Some(<<" ">>), Some(<<" ", "x", "\n">>)},
        f2 \in {None, Some(<<"y">>)}}

\* the values assigned to the token
TokenValues == {None, Some(<<>>), Some(<<"s">>)}

InitAuth ==
    /\ srvN = 0
    /\ py3 \in BOOLEAN
    /\ sq = SearchQueryNew(0, 1, 0)
    /\ hist = HistNew(0, 0)
    /\ call = NoCall
    /\ lazy = NoLazy
    /\ mq = NoMetrics
    /\ pair = NoPair
    /\ \E environ \in Environs, files \in FileSystems :
          auth = AuthNew(environ, files)

\* what a read of the token of object i did: g is the read
AfterTokenRead(i, g) ==
    [auth EXCEPT
        !.objs[i] = g.obj,
        !.first[i] = IF @ = None THEN Some(g.value) ELSE @,
        !.last = [op |-> "read", obj |-> i, read |-> TRUE,
                  value |-> g.value, warned |-> g.warned,
                  consulted |-> g.consulted,
                  had |-> auth.objs[i].token, prior |-> auth.first[i],
                  session |-> None],
        !.steps = @ + 1]

\* the caller reads the token of object i
ReadToken ==
    \E i \in 1..2 :
        /\ auth.steps < MaxSteps
        /\ auth' = AfterTokenRead(i, TokenGet(auth.objs[i], auth.environ,
                                              auth.files, py3))
        /\ UNCHANGED <<srvN, py3, sq, hist, call, lazy, pair, mq>>

\* the caller assigns v to the token of object i
SetToken ==
    \E i \in 1..2, v \in TokenValues :
        /\ auth.steps < MaxSteps
        /\ auth' = [auth EXCEPT
              !.objs[i] = TokenSet(@, v),
              !.setTo[i] = Some(v),
              !.last = [NoAuthOp EXCEPT !.op = "set", !.obj = i,
                                        !.value = v],
              !.steps = @ + 1]
        /\ UNCHANGED <<srvN, py3, sq, hist, call, lazy, pair, mq>>

\* what a request of object i did: g is the read of self.session
AfterRequest(i, g) ==
    [auth EXCEPT
        !.objs[i] = g.obj,
        !.first[i] = IF @ = None /\ g.tok # None
                     THEN Some(g.tok[1].value) ELSE @,
        !.nreq[i] = @ + 1,
        !.made[i] = IF g.made THEN @ + 1 ELSE @,
        !.serial = IF g.made THEN @ + 1 ELSE @,
        !.last = [op |-> "request", obj |-> i, read |-> g.tok # None,
                  value |-> IF g.tok # None THEN g.tok[1].value ELSE None,
                  warned |-> g.tok # None /\ g.tok[1].warned,
                  consulted |-> IF g.tok # None THEN g.tok[1].consulted
                                ELSE <<>>,
                  had |-> auth.objs[i].token, prior |-> auth.first[i],
                  session |-> Some(g.ret)],
        !.steps = @ + 1]

\* object i sends a request (execute() or next()): self.session.get(...)
Request ==
    \E i \in 1..2 :
        /\ auth.steps < MaxSteps
        /\ auth' = AfterRequest(i, SessionGet(auth.objs[i], auth.environ,
                                              auth.files, py3,
                                              auth.serial + 1))
        /\ UNCHANGED <<srvN, py3, sq, hist, call, lazy, pair, mq>>

\* a variable of the environment or a token file changes
ChangeSource ==
    /\ auth.changes < MaxEnvChanges
    /\ \E environ \in Environs, files \in FileSystems :
          /\ Cardinality({v \in DOMAIN environ :
                             environ[v] # auth.environ[v]})
               + Cardinality({f \in DOMAIN files :
                                files[f] # auth.files[f]}) = 1
          /\ auth' = [auth EXCEPT
                !.environ = environ,
                !.files = files,
                !.last = [NoAuthOp EXCEPT !.op = "source"],
                !.changes = @ + 1]
    /\ UNCHANGED <<srvN, py3, sq, hist, call, lazy, pair, mq>>

NextAuth == ReadToken \/ SetToken \/ Request \/ ChangeSource

SpecAuth == InitAuth /\ [][NextAuth]_vars

\* the token the sources hold: the value of the first variable that is set
\* and not empty, else the trimmed content of the first file that opens and
\* is not blank, else None
FirstNonEmpty(environ, files) ==
    LET vars1 == {i \in 1..Len(TOKEN_ENVIRON_VARS) :
                    /\ environ[TOKEN_ENVIRON_VARS[i]] # None
                    /\ environ[TOKEN_ENVIRON_VARS[i]][1] # <<>>}
        files1 == {i \in 1..Len(TOKEN_FILES) :
                     /\ files[TOKEN_FILES[i]] # None
                     /\ Strip(files[TOKEN_FILES[i]][1]) # <<>>}
    IN  IF vars1 # {} THEN Some(environ[TOKEN_ENVIRON_VARS[Least(vars1)]][1])
        ELSE IF files1 # {}
        THEN Some(Strip(files[TOKEN_FILES[Least(files1)]][1]))
        ELSE None

\* the last operation read the token of an object whose token was never
\* assigned
ReadUnassigned == auth.last.read /\ auth.setTo[auth.last.obj] = None

\* C13: with no token set explicitly, resolution returns the value of the
\* first environment variable of TOKEN_ENVIRON_VARS that is set and not
\* empty; if there is none, the trimmed content of the first file of
\* TOKEN_FILES that opens and has non-empty content; if there is none
\* either, it warns (no error) and returns no token.
C13_FirstNonEmptySourceWins ==
    (ReadUnassigned /\ auth.last.had = None) =>
        /\ auth.last.value = FirstNonEmpty(auth.environ, auth.files)
        /\ auth.last.warned <=> auth.last.value = None

\* C14: after the token of an object was read once, whatever that first
\* read produced, every later read on the object returns the same value,
\* looks at no environment variable and no file, and warns no more, even
\* when the environment or the files changed in between.
C14_ResolutionMemoized ==
    (ReadUnassigned /\ auth.last.prior # None) =>
        /\ auth.last.value = auth.last.prior[1]
        /\ auth.last.consulted = <<>>
        /\ ~auth.last.warned

\* What the code memoizes: a token that was found.  A read on an object
\* holding a token returns it without looking anywhere, and the token found
\* first is the one held ever after; a read that finds none stores nothing,
\* and the next read resolves again.
FoundTokenMemoized ==
    ReadUnassigned =>
        /\ IF auth.last.had # None
           THEN /\ auth.last.value = auth.last.had
                /\ auth.last.consulted = <<>>
                /\ ~auth.last.warned
           ELSE /\ auth.last.consulted # <<>>
                /\ auth.objs[auth.last.obj].token = auth.last.value
        /\ (auth.last.prior # None /\ auth.last.prior[1] # None)
              => auth.last.had = auth.last.prior[1]

\* a token found at the first read, the source changed, the same token
\* returned at the second read
FoundTokenMemoizedWitness ==
    /\ ReadUnassigned
    /\ auth.last.prior # None
    /\ auth.last.prior[1] # None
    /\ auth.changes > 0
    /\ TokenGet(BaseQueryNew, auth.environ, auth.files, py3).value
          # auth.last.value

\* C15: after a value v was assigned to the token of an object, every read
\* of the token of that object returns v and looks at no environment
\* variable and no file, whatever they hold; an operation on one object
\* changes nothing of the other.
C15_ExplicitTokenShortCircuits ==
    /\ [](\A i \in 1..2 :
            (/\ auth.last.read
             /\ auth.last.obj = i
             /\ auth.setTo[i] # None
             /\ auth.setTo[i][1] # None)
            => /\ auth.last.value = auth.setTo[i][1]
               /\ auth.last.consulted = <<>>
               /\ ~auth.last.warned)
    /\ [][\A j \in 1..2 :
            auth'.last.obj # j =>
                /\ auth'.objs[j] = auth.objs[j]
                /\ auth'.setTo[j] = auth.setTo[j]
                /\ auth'.first[j] = auth.first[j]]_vars

\* a run of C15: a token resolved from the sources, then another assigned
\* and read back, while the other object resolves from the sources
C15_Witness ==
    /\ auth.last.op = "read"
    /\ auth.last.obj = 1
    /\ auth.first[1] # None
    /\ auth.first[1][1] # None
    /\ auth.setTo[1] = Some(Some(<<"s">>))
    /\ auth.last.value = Some(<<"s">>)
    /\ auth.first[1][1] # Some(<<"s">>)
    /\ auth.setTo[2] = None
    /\ auth.objs[2].token # None
    /\ auth.objs[2].token # Some(<<"s">>)

\* C16: a query object has no session after construction; its first
\* request constructs one, and every later request of the object uses that
\* same session with the headers it was given then: one session is
\* constructed per object, and its Authorization header never changes.
C16_OneSessionPerObject ==
    /\ [](\A i \in 1..2 :
            /\ auth.objs[i].session = None <=> auth.nreq[i] = 0
            /\ auth.made[i] = IF auth.nreq[i] > 0 THEN 1 ELSE 0
            /\ (auth.last.op = "request" /\ auth.last.obj = i)
                  => auth.last.session = auth.objs[i].session)
    /\ [][\A i \in 1..2 :
            auth.objs[i].session # None =>
                auth'.objs[i].session = auth.objs[i].session]_vars

\* a run of C16: a session constructed without a token, a token assigned,
\* a second request sent with the session of the first
C16_Witness ==
    /\ auth.last.op = "request"
    /\ auth.nreq[auth.last.obj] >= 2
    /\ auth.made[auth.last.obj] = 1
    /\ auth.objs[auth.last.obj].token = Some(<<"s">>)
    /\ auth.last.session[1].headers.Authorization
          = <<"Bearer ", "N", "o", "n", "e">>
    /\ auth.nreq[3 - auth.last.obj] > 0

----------------------------------------------------------------------------
(* Two query objects side by side: claim C17.                              *)

\* the ways the two objects are constructed: both from parameters (the
\* default field list), each from a query_dict of its own, or both from the
\* same query_dict
InitShare ==
    /\ srvN \in 1..MaxN
    /\ py3 \in BOOLEAN
    /\ sq = SearchQueryNew(0, 1, 0)
    /\ hist = HistNew(0, 0)
    /\ call = NoCall
    /\ lazy = NoLazy
    /\ mq = NoMetrics
    /\ auth = NoAuth
    /\ \E r \in 1..MaxRows, m \in 0..MaxPages :
          LET d == [q |-> "unittest", rows |-> r]
              a == [DefaultArgs EXCEPT !.q = Some("unittest"),
                                       !.rows = Some(r), !.max_pages = m]
          IN  \/ pair = PairNew(<<>>, 0, 0, a)
              \/ pair = PairNew(<<d, d>>, 1, 2, a)
              \/ pair = PairNew(<<d>>, 1, 1, a)

\* the value of object x of the pair
PairObj(p, x) == Deref(p.heap, p.qref[x], p.objs[x])

\* the pair after a method of object x returned: r is what the method did
AfterPair(x, op, r) ==
    /\ Len(r.obj.sent) <= MaxSent
    /\ NumFailed(r.obj) <= MaxFail
    /\ pair' = [pair EXCEPT
          !.heap = StoreQuery(@, pair.qref[x], r.obj),
          !.objs[x] = r.obj,
          !.acted = x,
          !.op = op,
          !.ops = @ + 1]
    /\ UNCHANGED <<srvN, py3, sq, hist, call, lazy, auth, mq>>

\* next() is called on object x of the pair
PairNext ==
    \E x \in 1..2 :
      \E out1 \in FirstOutcomes(PairObj(pair, x)),
         out2 \in FurtherOutcomes(PairObj(pair, x), ServerDB(srvN), py3) :
        /\ pair.ops < MaxPairOps
        /\ AfterPair(x, "next", SQNext(PairObj(pair, x), ServerDB(srvN),
                                       py3, out1, out2))

\* execute() is called on object x of the pair
PairExecute ==
    \E x \in 1..2, out \in Outcomes :
        /\ pair.ops < MaxPairOps
        /\ AfterPair(x, "execute",
                     SQExecute(PairObj(pair, x), ServerDB(srvN), out))

\* max_pages of object x of the pair is assigned
PairSetMaxPages ==
    \E x \in 1..2, m \in 0..MaxPages :
        /\ pair.ops < MaxPairOps
        /\ m # pair.objs[x].max_pages
        /\ pair' = [pair EXCEPT !.objs[x].max_pages = m,
                                !.acted = x,
                                !.op = "max_pages",
                                !.ops = @ + 1]
        /\ UNCHANGED <<srvN, py3, sq, hist, call, lazy, auth, mq>>

NextShare == PairNext \/ PairExecute \/ PairSetMaxPages

SpecShare == InitShare /\ [][NextShare]_vars

\* an operation on one object left the other as it was: its query
\* parameters (start included), records, last response, cursor and max_pages
OtherUntouched ==
    \A x \in 1..2 :
        pair'.acted # x => PairObj(pair', x) = PairObj(pair, x)

\* C17: no state is shared between two query objects, however they were
\* constructed (parameters with the default field list, or a query_dict
\* supplied by the caller): execute(), next() and setting max_pages on one
\* never change the other's query parameters, records, response or cursor.
C17_NoSharedState == [][OtherUntouched]_vars

\* What the code guarantees: two objects that do not hold the same dict
\* (constructed from parameters, or from a dict each) do not affect each
\* other.
OwnDictsIndependent ==
    [][pair.qref[1] # pair.qref[2] => OtherUntouched]_vars

\* both objects, constructed from a dict each, fetched pages
OwnDictsWitness ==
    /\ pair.given = <<1, 2>>
    /\ pair.objs[1].nexec > 0
    /\ pair.objs[2].nexec > 0
    /\ pair.heap[1].start # pair.heap[2].start

----------------------------------------------------------------------------
(* An Article without an id: claim C18.                                    *)

\* the Article was constructed without an id, or with id = None
NoIdGiven == "id" \notin lazy.given \/ lazy.before.raw.id = PyNone

\* C18: an Article is constructed without an id (with a warning only when
\* the id is absent); reading a lazily resolved field that is not on such a
\* record, its id absent or None, raises APIResponseError, sends no request
\* and leaves the record as it was.
C18_NoIdFailsAtResolution ==
    /\ ("id" \notin lazy.given) <=> ArticleInitWarns(lazy.before.raw)
    /\ (/\ NoIdGiven
        /\ lazy.last.field \in LazyFields
        /\ ~lazy.last.had)
       => /\ lazy.last.res
               = Raise("APIResponseError",
                       "Cannot query an article without an id")
          /\ lazy.last.nreq = 0
          /\ lazy.log = <<>>
          /\ lazy.art = lazy.before
          /\ lazy.art = ArticleInit(lazy.art.raw)

\* a run of C18: an Article with id = None and a title, its year read
C18_Witness ==
    /\ lazy.given = {"id", "title"}
    /\ lazy.before.raw.id = PyNone
    /\ lazy.last.field = "year"
    /\ lazy.last.res.exc = "APIResponseError"
    /\ lazy.reads >= 2
    /\ Len(lazy.db) > 0

\* a run of C18: an Article without an id
C18_WitnessAbsent ==
    /\ "id" \notin lazy.given
    /\ lazy.last.field = "abstract"
    /\ lazy.last.res.exc = "APIResponseError"

----------------------------------------------------------------------------
(* MetricsQuery: claim C20.                                                *)

\* the bibcodes arguments tried: a string, and lists of 0, 1 and 2 strings
BibcodeArgs ==
    {[type |-> "str", v |-> "bibcode"],
     [type |-> "list", v |-> <<>>],
     [type |-> "list", v |-> <<"b1">>],
     [type |-> "list", v |-> <<"b1", "b2">>]}

InitMetrics ==
    /\ srvN = 0
    /\ py3 \in BOOLEAN
    /\ sq = SearchQueryNew(0, 1, 0)
    /\ hist = HistNew(0, 0)
    /\ call = NoCall
    /\ lazy = NoLazy
    /\ auth = NoAuth
    /\ pair = NoPair
    /\ \E b \in BibcodeArgs : mq = MetricsNew(b, py3)

\* what the caller of mq.execute() sees: r is what the call did
AfterMetricsExecute(outcome, r) ==
    [mq EXCEPT
        !.ctor.obj = Some(r.obj),
        !.before = mq.ctor.obj[1].response,
        !.log = Append(@, [outcome |-> outcome, exc |-> r.exc,
                           ret |-> r.ret])]

\* the caller calls mq.execute()
MetricsExecute ==
    \E outcome \in Outcomes :
        /\ mq.ctor.exc = "none"
        /\ Len(mq.log) < MaxExecs
        /\ mq' = AfterMetricsExecute(outcome,
                                     MQExecute(mq.ctor.obj[1], outcome))
        /\ UNCHANGED <<srvN, py3, sq, hist, call, lazy, auth, pair>>

NextMetrics == MetricsExecute

SpecMetrics == InitMetrics /\ [][NextMetrics]_vars

\* the list of bibcodes the argument stands for
AsList(b) == IF b.type = "str" THEN <<b.v>> ELSE b.v

\* C20: MetricsQuery makes a one-element list of a single bibcode string and
\* keeps a list as given; each execute() sends exactly one POST with the
\* body {"bibcodes": [...]}; on a successful response execute() returns a
\* MetricsResponse, and that object is the query's .response; on a non-2xx
\* response it raises and .response keeps its value.
C20_MetricsQueryContract ==
    /\ mq.ctor.exc = "none"
    /\ LET o == mq.ctor.obj[1]
           n == Len(mq.log)
       IN  /\ o.bibcodes = AsList(mq.arg)
           /\ Len(o.posts) = n
           /\ \A i \in 1..n :
                 o.posts[i] = JsonDumps([bibcodes |-> AsList(mq.arg)])
           /\ n > 0 =>
                 /\ mq.log[n].outcome = "ok" =>
                       /\ mq.log[n].exc = "none"
                       /\ mq.log[n].ret # None
                       /\ mq.log[n].ret = o.response
                       /\ HasKey(o.response[1], "metrics")
                 /\ mq.log[n].outcome = "http_error" =>
                       /\ mq.log[n].exc = "APIResponseError"
                       /\ o.response = mq.before

\* What the code does: on Python 2 the contract holds; on Python 3 the
\* constructor raises NameError before anything is set.
MetricsContractOnPython2 ==
    IF py3
    THEN mq.ctor = Raise("NameError", "basestring")
    ELSE C20_MetricsQueryContract

\* a run on Python 2: a string argument, a successful execute(), then a
\* non-2xx response that leaves .response alone
MetricsContractWitness ==
    /\ ~py3
    /\ mq.arg.type = "str"
    /\ Len(mq.log) = 2
    /\ mq.log[1].outcome = "ok"
    /\ mq.log[2].outcome = "http_error"
    /\ mq.ctor.obj[1].response # None
    /\ mq.ctor.obj[1].response = mq.log[1].ret

====
